---------------------------- MODULE Spec2Model ----------------------------
(***************************************************************************)
(* A model of the estimation room (Scrum Poker) of jmunozlo/estimatapp:    *)
(* the Room aggregate, the use cases of the application layer, the HTTP    *)
(* and WebSocket routes and the connection manager.                        *)
(*                                                                         *)
(* Strings that the code trims, lower-cases or measures (room, player and  *)
(* story names) are sequences of one-character strings, so that strip(),   *)
(* lower() and len() are computed.  Vote tokens are opaque strings; float()*)
(* is the table FloatTable.  Timestamps (created_at, joined_at, voted_at)  *)
(* are not modelled: no operation reads them.                              *)
(***************************************************************************)
EXTENDS Integers, Sequences, FiniteSets, TLC

VARIABLES
    repo,                \* InMemoryRoomRepository._rooms: the room ids stored
    heap,                \* the Room objects ever created, by room id
    active_connections,  \* ConnectionManager.active_connections: room id -> player ids
    ws_open,             \* running websocket_endpoint handlers: <<room id, player id>> -> count
    last,                \* outcome of the last operation (observed, never read by the code)
    event_loop           \* tasks: the broadcasts suspended at an await, by the number of
                         \* the broadcast; inbox: the messages written to each channel;
                         \* order: the key order of each room's connection dict;
                         \* started: the broadcasts started so far

vars == <<repo, heap, active_connections, ws_open, last, event_loop>>

(***************************************************************************)
(* Python values                                                           *)
(***************************************************************************)
\* Python's None where a string is expected (a vote, a rounded average).
None == "<None>"

\* Python's None where a float is expected (an average): a fraction with denominator 0.
NoAvg == <<0, 0>>

\* str.strip(): drop the leading and trailing blanks.
RECURSIVE LStrip(_)
LStrip(s) == IF s # <<>> /\ Head(s) = " " THEN LStrip(Tail(s)) ELSE s

RECURSIVE RStrip(_)
RStrip(s) == IF s # <<>> /\ s[Len(s)] = " " THEN RStrip(SubSeq(s, 1, Len(s) - 1)) ELSE s

Strip(s) == RStrip(LStrip(s))

\* str.lower() on the letters the model's names use.
LowerChar(c) ==
    CASE c = "A" -> "a"
      [] c = "B" -> "b"
      [] c = "C" -> "c"
      [] c = "L" -> "l"
      [] c = "O" -> "o"
      [] c = "Y" -> "y"
      [] OTHER -> c

Lower(s) == [i \in 1..Len(s) |-> LowerChar(s[i])]

\* A string of n copies of "x" (the over-long inputs).
Fill(n) == [i \in 1..n |-> "x"]

\* Elements of a sequence / membership (Python's `in` on a list).
Range(s) == {s[i] : i \in 1..Len(s)}

RECURSIVE Gcd(_, _)
Gcd(a, b) == IF b = 0 THEN a ELSE Gcd(b, a % b)

Abs(x) == IF x < 0 THEN -x ELSE x

\* The fraction n/d in lowest terms (d > 0).
Frac(n, d) == LET g == Gcd(n, d) IN <<n \div g, d \div g>>

(***************************************************************************)
(* Scales (domain/value_objects/voting.py)                                 *)
(***************************************************************************)
\* The coffee-cup token of the predefined scales, written in ASCII.
Coffee == "coffee"

PREDEFINED_SCALES ==
    [ fibonacci |-> <<"0", "1", "2", "3", "5", "8", "13", "21", "34", "55", "89", "?", Coffee>>,
      modified_fibonacci |->
          <<"0", "0.5", "1", "2", "3", "5", "8", "13", "20", "40", "100", "?", Coffee>>,
      powers_of_2 |-> <<"0", "1", "2", "4", "8", "16", "32", "64", "?", Coffee>>,
      t_shirt |-> <<"XXS", "XS", "S", "M", "L", "XL", "XXL", "?", Coffee>>,
      linear |-> <<"0", "1", "2", "3", "4", "5", "6", "7", "8", "9", "10", "?", Coffee>> ]

\* float(token) for the tokens that parse, as twice the value (so that 0.5 is an integer).
FloatTable ==
    [ t \in {"0", "0.5", "1", "2", "3", "4", "5", "6", "7", "8", "9", "10", "13", "16",
             "20", "21", "32", "34", "40", "55", "64", "89", "100"} |->
        CASE t = "0" -> 0     [] t = "0.5" -> 1   [] t = "1" -> 2    [] t = "2" -> 4
          [] t = "3" -> 6     [] t = "4" -> 8     [] t = "5" -> 10   [] t = "6" -> 12
          [] t = "7" -> 14    [] t = "8" -> 16    [] t = "9" -> 18   [] t = "10" -> 20
          [] t = "13" -> 26   [] t = "16" -> 32   [] t = "20" -> 40  [] t = "21" -> 42
          [] t = "32" -> 64   [] t = "34" -> 68   [] t = "40" -> 80  [] t = "55" -> 110
          [] t = "64" -> 128  [] t = "89" -> 178  [] t = "100" -> 200 ]

\* The tokens float() parses to a NaN.
NaNTokens == {"nan"}

\* float(token) succeeds (no ValueError).
IsFloat(t) == t \in DOMAIN FloatTable \/ t \in NaNTokens

\* 2 * float(token), for a token that parses to a number.
Float2(t) == FloatTable[t]

\* A NaN average (NoAvg is the absent one).
NaNAvg == <<1, 0>>

\* sum(numeric_votes) / len(numeric_votes) over a sequence of tokens that parse: a NaN
\* among them makes the sum a NaN.
RECURSIVE Sum2(_)
Sum2(toks) == IF toks = <<>> THEN 0 ELSE Float2(Head(toks)) + Sum2(Tail(toks))

Mean(toks) ==
    IF toks = <<>> THEN NoAvg
    ELSE IF \E i \in 1..Len(toks) : toks[i] \in NaNTokens THEN NaNAvg
    ELSE Frac(Sum2(toks), 2 * Len(toks))

\* VotingScale.round_to_scale: min(numeric_scale, key=lambda x: abs(x[0] - value)) with
\* value = avg[1]/avg[2]; None when no token parses.
\* |x2/2 - n/d| = |x2*d - 2n| / (2d), compared through its numerator.
Distance(t, avg) == Abs(Float2(t) * avg[2] - 2 * avg[1])

\* key(t) < key(best), as min() asks: false as soon as one of the keys is a NaN.
KeyLess(t, best, avg) ==
    /\ t \notin NaNTokens
    /\ best \notin NaNTokens
    /\ avg # NaNAvg
    /\ Distance(t, avg) < Distance(best, avg)

\* min() keeps the first item and replaces it by a later one of a smaller key.
RECURSIVE MinFirst(_, _, _)
MinFirst(numeric_scale, avg, best) ==
    IF numeric_scale = <<>> THEN best
    ELSE MinFirst(Tail(numeric_scale), avg,
                  IF KeyLess(Head(numeric_scale), best, avg)
                  THEN Head(numeric_scale) ELSE best)

VotingScale_round_to_scale(values, avg) ==
    LET numeric_scale == SelectSeq(values, IsFloat)
    IN  IF numeric_scale = <<>> THEN None
        ELSE MinFirst(Tail(numeric_scale), avg, Head(numeric_scale))

(***************************************************************************)
(* Player (domain/entities/player.py) and StoryHistory (entities/story.py) *)
(***************************************************************************)
\* Faulty variant: every participant is created a facilitator.
Player_create_facilitator(player_id, name, is_observer, is_facilitator) ==
    [ id |-> player_id, name |-> name, is_observer |-> is_observer,
      is_facilitator |-> TRUE, vote |-> None, connected |-> TRUE ]

Player_create(player_id, name, is_observer, is_facilitator) ==
    [ id |-> player_id, name |-> name, is_observer |-> is_observer,
      is_facilitator |-> is_facilitator, vote |-> None, connected |-> TRUE ]

\* Player.has_voted: `self.vote is not None`.
has_voted(p) == p.vote # None

\* Python truthiness of `player.vote`: neither None nor the empty string.
Truthy(v) == v # None /\ v # ""

StoryHistory_create(story_name, votes, vote_summary, average, rounded_average, round_number, is_superseded) ==
    [ story_name |-> story_name, votes |-> votes, vote_summary |-> vote_summary,
      average |-> average, rounded_average |-> rounded_average,
      round_number |-> round_number, is_superseded |-> is_superseded ]

(***************************************************************************)
(* Room (domain/aggregates/room.py).  `players` is the dict in insertion   *)
(* order; a player's id is its position (ids are fresh and never reused).  *)
(***************************************************************************)
Room_create(room_id, name) ==
    [ id |-> room_id, name |-> name, status |-> "voting", voting_mode |-> "public",
      players |-> <<>>, story_name |-> <<>>, history |-> <<>>,
      voting_scale |-> "modified_fibonacci", custom_scale |-> <<>> ]

add_player(room, player) == [room EXCEPT !.players = Append(@, player)]

\* Room.get_player: the player's position, 0 for Python's None.
get_player(room, player_id) ==
    IF player_id \in 1..Len(room.players) THEN player_id ELSE 0

\* Faulty variant: no participant is ever found by name.
find_player_by_name_none(room, name) == 0

\* Faulty variant: the first participant of the room is not looked at.
find_player_by_name_skip_first(room, name) ==
    LET hits == {i \in 2..Len(room.players) : Lower(room.players[i].name) = Lower(name)}
    IN  IF hits = {} THEN 0 ELSE CHOOSE i \in hits : \A j \in hits : i <= j

\* Room.find_player_by_name: the first player whose lower-cased name matches, 0 for None.
\* Faulty variant: the names are compared as they are written.
find_player_by_name_exact(room, name) ==
    LET hits == {i \in 1..Len(room.players) : room.players[i].name = name}
    IN  IF hits = {} THEN 0 ELSE CHOOSE i \in hits : \A j \in hits : i <= j

find_player_by_name(room, name) ==
    LET hits == {i \in 1..Len(room.players) : Lower(room.players[i].name) = Lower(name)}
    IN  IF hits = {} THEN 0 ELSE CHOOSE i \in hits : \A j \in hits : i <= j

\* Faulty variant: every non-observer counts, connected or not.
get_active_voters_any_connection(room) ==
    SelectSeq(room.players, LAMBDA p : ~p.is_observer)

get_active_voters(room) ==
    SelectSeq(room.players, LAMBDA p : ~p.is_observer /\ p.connected)

player_count(room) == Len(room.players)

get_current_scale(room) ==
    IF room.custom_scale # <<>> THEN room.custom_scale
    ELSE IF room.voting_scale \in DOMAIN PREDEFINED_SCALES
         THEN PREDEFINED_SCALES[room.voting_scale]
         ELSE PREDEFINED_SCALES["modified_fibonacci"]

\* str.strip() of a scale token, for the tokens the model offers as custom values.
TokStrip(t) ==
    CASE t = " 1 " -> "1"
      [] t = " 3" -> "3"
      [] t = "  " -> ""
      [] OTHER -> t

\* [v.strip() for v in values if v and str(v).strip()]
CleanValues(values) ==
    LET kept == SelectSeq(values, LAMBDA v : v # "" /\ TokStrip(v) # "")
    IN  [i \in 1..Len(kept) |-> TokStrip(kept[i])]

\* Room.get_voting_scale: the values of the VotingScale value object.
get_voting_scale(room) ==
    IF room.custom_scale # <<>> THEN CleanValues(room.custom_scale)
    ELSE IF room.voting_scale \in DOMAIN PREDEFINED_SCALES
         THEN PREDEFINED_SCALES[room.voting_scale]
         ELSE PREDEFINED_SCALES["modified_fibonacci"]

\* Faulty variant: the custom values are kept.
set_scale_keeping_custom(room, scale_name) == [room EXCEPT !.voting_scale = scale_name]

set_scale(room, scale_name) ==
    [room EXCEPT !.voting_scale = scale_name, !.custom_scale = <<>>]

set_custom_scale(room, values) ==
    [room EXCEPT !.custom_scale = CleanValues(values), !.voting_scale = "custom"]

\* Faulty variant: the average is rounded on the predefined scale of the stored name,
\* whatever custom values are set.
round_to_scale_predefined(room, avg) ==
    VotingScale_round_to_scale(
        IF room.voting_scale \in DOMAIN PREDEFINED_SCALES
        THEN PREDEFINED_SCALES[room.voting_scale]
        ELSE PREDEFINED_SCALES["modified_fibonacci"], avg)

round_to_scale(room, avg) == VotingScale_round_to_scale(get_voting_scale(room), avg)

\* Faulty variant: every token is taken.
is_valid_vote_any(room, vote_value) == TRUE

is_valid_vote(room, vote_value) == vote_value \in Range(get_current_scale(room))

\* Faulty variant: a reveal of a revealed room goes back to voting.
reveal_votes_toggle(room) ==
    [room EXCEPT !.status = IF @ = "revealed" THEN "voting" ELSE "revealed"]

reveal_votes(room) == [room EXCEPT !.status = "revealed"]

all_voted(room) ==
    LET active_players == get_active_voters(room)
    IN  IF active_players = <<>> THEN FALSE
        ELSE \A i \in 1..Len(active_players) : has_voted(active_players[i])

\* Faulty variant: the players who left are not counted.
Counted_connected(room) ==
    SelectSeq(room.players, LAMBDA p : ~p.is_observer /\ Truthy(p.vote) /\ p.connected)

\* The players a tally counts: `not player.is_observer and player.vote`.
Counted(room) == SelectSeq(room.players, LAMBDA p : ~p.is_observer /\ Truthy(p.vote))

\* summary[player.vote] = summary.get(player.vote, 0) + 1 over the counted players.
Tally(counted) ==
    [t \in {counted[i].vote : i \in 1..Len(counted)} |->
        Cardinality({i \in 1..Len(counted) : counted[i].vote = t})]

\* votes[player.name] = player.vote over the counted players: a later player of the
\* same name overwrites an earlier one.
VotesByName(counted) ==
    [n \in {counted[i].name : i \in 1..Len(counted)} |->
        LET idx == {i \in 1..Len(counted) : counted[i].name = n}
        IN  counted[CHOOSE i \in idx : \A j \in idx : j <= i].vote]

\* numeric_votes: the counted votes that float() parses, in player order.
NumericVotes(counted) ==
    LET num == SelectSeq(counted, LAMBDA p : IsFloat(p.vote))
    IN  [i \in 1..Len(num) |-> num[i].vote]

get_vote_summary(room) ==
    IF room.status # "revealed" THEN <<>> ELSE Tally(Counted(room))

get_average_vote(room) ==
    IF room.status # "revealed" THEN NoAvg ELSE Mean(NumericVotes(Counted(room)))

\* Faulty variant: naming the item reopens the voting.
set_story_name_reopening(room, name) == [room EXCEPT !.story_name = name, !.status = "voting"]

set_story_name(room, name) == [room EXCEPT !.story_name = name]

\* Faulty variant: the mode ends anonymous whatever it was.
toggle_voting_mode_anonymous(room) == [room EXCEPT !.voting_mode = "anonymous"]

toggle_voting_mode(room) ==
    [room EXCEPT !.voting_mode = IF @ = "public" THEN "anonymous" ELSE "public"]

\* Faulty variant: every record is numbered 1.
RoundNumber_restart(history, story_name, round_number) == round_number

\* The loop of update_or_add_history: every earlier record of the story is marked
\* superseded, and round_number ends as max(1, their round_number + 1).
RECURSIVE RoundNumber(_, _, _)
RoundNumber(history, story_name, round_number) ==
    IF history = <<>> THEN round_number
    ELSE RoundNumber(Tail(history), story_name,
                     IF Head(history).story_name = story_name
                     THEN (IF Head(history).round_number + 1 > round_number
                           THEN Head(history).round_number + 1 ELSE round_number)
                     ELSE round_number)

\* Faulty variant: the earlier records of the story are left as they are.
MarkSuperseded_none(history, story_name) == history

MarkSuperseded(history, story_name) ==
    [i \in 1..Len(history) |->
        IF history[i].story_name = story_name
        THEN [history[i] EXCEPT !.is_superseded = TRUE]
        ELSE history[i]]

\* Faulty variant: the new record is appended and nothing is marked.
update_or_add_history_append_only(room, story_name, votes, vote_summary, average, rounded_average) ==
    [room EXCEPT !.history =
        Append(@, StoryHistory_create(story_name, votes, vote_summary, average, rounded_average,
                                      RoundNumber(@, story_name, 1), FALSE))]

\* Faulty variant: the earlier records of the story are dropped.
update_or_add_history_replacing(room, story_name, votes, vote_summary, average, rounded_average) ==
    [room EXCEPT !.history =
        Append(SelectSeq(@, LAMBDA h : h.story_name # story_name),
               StoryHistory_create(story_name, votes, vote_summary, average, rounded_average,
                                   1, FALSE))]

update_or_add_history(room, story_name, votes, vote_summary, average, rounded_average) ==
    [room EXCEPT !.history =
        Append(MarkSuperseded(room.history, story_name),
               StoryHistory_create(story_name, votes, vote_summary, average, rounded_average,
                                   RoundNumber(room.history, story_name, 1), FALSE))]

\* Faulty variant: a reset also drops the participants that are not connected.
ClearVotes_dropping(players) ==
    SelectSeq([i \in 1..Len(players) |-> [players[i] EXCEPT !.vote = None]],
              LAMBDA p : p.connected)

\* for player in self.players.values(): player.reset_vote()
\* Faulty variant: only the votes of the voters are cleared, an observer's is kept.
ClearVotes_voters(players) ==
    [i \in 1..Len(players) |->
        IF players[i].is_observer THEN players[i] ELSE [players[i] EXCEPT !.vote = None]]

ClearVotes(players) == [i \in 1..Len(players) |-> [players[i] EXCEPT !.vote = None]]

reset_votes(room) ==
    LET counted == Counted(room)
        votes == VotesByName(counted)
        average == Mean(NumericVotes(counted))
        rounded_average == IF average # NoAvg THEN round_to_scale(room, average) ELSE None
        archived ==
            IF room.story_name # <<>> /\ counted # <<>>
            THEN update_or_add_history(room, room.story_name, votes, Tally(counted),
                                       average, rounded_average)
            ELSE room
    IN  [archived EXCEPT !.players = ClearVotes(@), !.story_name = <<>>, !.status = "voting"]

\* Faulty variant: the superseded records are added up too.
RECURSIVE TotalPoints2_all(_)
TotalPoints2_all(history) ==
    IF history = <<>> THEN 0
    ELSE (IF Truthy(Head(history).rounded_average) /\ IsFloat(Head(history).rounded_average)
          THEN Float2(Head(history).rounded_average) ELSE 0)
         + TotalPoints2_all(Tail(history))

\* Room.get_total_story_points, as twice the float total; NaNTotal when a NaN is
\* added.
NaNTotal == 0 - 1

RECURSIVE TotalPoints2(_)
TotalPoints2(history) ==
    IF history = <<>> THEN 0
    ELSE LET story == Head(history)
             rest == TotalPoints2(Tail(history))
         IN  IF story.is_superseded \/ ~Truthy(story.rounded_average)
                \/ ~IsFloat(story.rounded_average)
             THEN rest
             ELSE IF story.rounded_average \in NaNTokens \/ rest = NaNTotal
             THEN NaNTotal
             ELSE Float2(story.rounded_average) + rest

get_total_story_points(room) == TotalPoints2(room.history)

(***************************************************************************)
(* What an operation reports: the exception a use case raises, the HTTP    *)
(* error of a route, the error message a channel handler sends back; what  *)
(* it returns; and the room_update broadcast it triggers.                  *)
(***************************************************************************)
NoMessage == [type |-> "none"]

Outcome(room_id, op, player, result) ==
    [ room |-> room_id,     \* the room id given
      op |-> op,            \* the operation
      player |-> player,    \* the calling player id (0: none)
      result |-> result,    \* "ok" or the failure
      vote |-> None,        \* the vote token given (Cast Vote)
      name |-> <<>>,        \* the name given (join)
      flag |-> FALSE,       \* the observer flag given (join)
      ret |-> 0,            \* the player id returned (join)
      broadcast |-> FALSE,  \* a room_update was built and handed to the manager
      recipients |-> {},    \* the players whose channel was sent the room_update
      error_to |-> {},      \* the players whose channel was sent an error message
      message |-> NoMessage,  \* the room_update handed to the manager
      failed |-> {},        \* the players whose channel raised when sent the room_update
      values |-> <<>>,      \* the scale values given (Set Custom Scale)
      mode |-> None ]       \* the voting mode returned (Toggle Voting Mode)

(***************************************************************************)
(* InMemoryRoomRepository (infrastructure/repositories)                    *)
(***************************************************************************)
\* exists / `if not room` after get_by_id: the id is a key of self._rooms.
exists(room_id) == room_id \in repo

\* get_by_id: the reference to the stored Room object (its id), or None.
get_by_id(rooms, room_id) == IF room_id \in rooms THEN room_id ELSE None

\* list_all: the references to the stored Room objects.
list_all(rooms) == rooms

\* save(room): self._rooms[room.id] = room (the object itself, not a copy).
save(room_id, room) ==
    /\ repo' = repo \cup {room_id}
    /\ heap' = (room_id :> room) @@ heap

\* the object a handler or use case already holds is mutated in place
mutate(room_id, room) == heap' = [heap EXCEPT ![room_id] = room]

SetPlayer(room, i, player) == [room EXCEPT !.players[i] = player]

(***************************************************************************)
(* Use cases (application/use_cases/room_use_cases.py)                     *)
(***************************************************************************)
MAX_NAME_LENGTH == 100
JoinRoomUseCase_MAX_PLAYER_NAME_LENGTH == 50
\* Faulty variant: the cap is one participant too high.
JoinRoomUseCase_MAX_PLAYERS_PER_ROOM_plus_one == 20 + 1

JoinRoomUseCase_MAX_PLAYERS_PER_ROOM == 20

\* new_id stands for str(uuid4())[:8]: an id no room has had.
CreateRoomUseCase_execute(room_name, new_id) ==
    LET name == Strip(room_name) IN
    /\ new_id \notin DOMAIN heap
    /\ UNCHANGED <<active_connections, ws_open>>
    /\ IF name = <<>> \/ Len(name) > MAX_NAME_LENGTH
       THEN /\ last' = [Outcome(new_id, "uc.create_room", 0, "InvalidRoomName") EXCEPT !.name = room_name]
            /\ UNCHANGED <<repo, heap>>
       ELSE /\ save(new_id, Room_create(new_id, name))
            /\ last' = [Outcome(new_id, "uc.create_room", 0, "ok") EXCEPT !.name = room_name]

\* Faulty variant: the deletion empties the directory.
DeleteRoomUseCase_execute_clear(room_id) ==
    /\ UNCHANGED <<heap, active_connections, ws_open>>
    /\ IF ~exists(room_id)
       THEN /\ last' = Outcome(room_id, "uc.delete_room", 0, "RoomNotFound")
            /\ UNCHANGED repo
       ELSE /\ repo' = {}
            /\ last' = Outcome(room_id, "uc.delete_room", 0, "ok")

DeleteRoomUseCase_execute(room_id) ==
    /\ UNCHANGED <<heap, active_connections, ws_open>>
    /\ IF ~exists(room_id)
       THEN /\ last' = Outcome(room_id, "uc.delete_room", 0, "RoomNotFound")
            /\ UNCHANGED repo
       ELSE /\ repo' = repo \ {room_id}
            /\ last' = Outcome(room_id, "uc.delete_room", 0, "ok")

JoinRoomUseCase_execute(room_id, player_name, is_observer) ==
    LET out(result) == [Outcome(room_id, "uc.join", 0, result) EXCEPT !.name = player_name, !.flag = is_observer]
        name == Strip(player_name)
    IN
    /\ UNCHANGED <<active_connections, ws_open>>
    /\ IF ~exists(room_id)
       THEN last' = out("RoomNotFound") /\ UNCHANGED <<repo, heap>>
       ELSE
       LET room == heap[room_id]
           existing_player == find_player_by_name(room, name)
           player_id == player_count(room) + 1
       IN
       IF name = <<>> \/ Len(name) > JoinRoomUseCase_MAX_PLAYER_NAME_LENGTH
       THEN last' = out("InvalidPlayerName") /\ UNCHANGED <<repo, heap>>
       ELSE IF existing_player # 0
       THEN /\ save(room_id, SetPlayer(room, existing_player,
                        [room.players[existing_player] EXCEPT !.connected = TRUE,
                                                              !.is_observer = is_observer]))
            /\ last' = [out("ok") EXCEPT !.ret = existing_player]
       ELSE IF player_count(room) >= JoinRoomUseCase_MAX_PLAYERS_PER_ROOM
       THEN last' = out("RoomFull") /\ UNCHANGED <<repo, heap>>
       ELSE /\ save(room_id, add_player(room,
                        Player_create(player_id, name, is_observer, player_count(room) = 0)))
            /\ last' = [out("ok") EXCEPT !.ret = player_id]

(***************************************************************************)
(* Use cases (application/use_cases/voting_use_cases.py)                   *)
(***************************************************************************)
\* Faulty variant: the limit is one character short.
MAX_STORY_NAME_LENGTH_less == 200 - 1
MAX_STORY_NAME_LENGTH == 200
\* Faulty variant: one value is enough.
MIN_SCALE_VALUES_one == 2 - 1
MIN_SCALE_VALUES == 2

VoteUseCase_execute(room_id, player_id, vote_value) ==
    LET out(result) == [Outcome(room_id, "uc.vote", player_id, result) EXCEPT !.vote = vote_value] IN
    /\ UNCHANGED <<active_connections, ws_open>>
    /\ IF ~exists(room_id)
       THEN last' = out("RoomNotFound") /\ UNCHANGED <<repo, heap>>
       ELSE
       LET room == heap[room_id]
           player == get_player(room, player_id)
       IN
       IF player = 0
       THEN last' = out("PlayerNotFound") /\ UNCHANGED <<repo, heap>>
       ELSE IF vote_value = None
       THEN /\ save(room_id, SetPlayer(room, player, [room.players[player] EXCEPT !.vote = None]))
            /\ last' = out("ok")
       ELSE IF ~is_valid_vote(room, vote_value)
       THEN last' = out("InvalidVote") /\ UNCHANGED <<repo, heap>>
       ELSE /\ save(room_id, SetPlayer(room, player,
                                       [room.players[player] EXCEPT !.vote = vote_value]))
            /\ last' = out("ok")

RevealVotesUseCase_execute(room_id, player_id) ==
    LET out(result) == Outcome(room_id, "uc.reveal", player_id, result) IN
    /\ UNCHANGED <<active_connections, ws_open>>
    /\ IF ~exists(room_id)
       THEN last' = out("RoomNotFound") /\ UNCHANGED <<repo, heap>>
       ELSE IF get_player(heap[room_id], player_id) = 0
       THEN last' = out("PlayerNotFound") /\ UNCHANGED <<repo, heap>>
       ELSE IF ~heap[room_id].players[player_id].is_facilitator
       THEN last' = out("Unauthorized") /\ UNCHANGED <<repo, heap>>
       ELSE /\ save(room_id, reveal_votes(heap[room_id]))
            /\ last' = out("ok")

\* Faulty variant: the caller's is_facilitator flag is not looked at.
ResetVotesUseCase_execute_anyone(room_id, player_id) ==
    LET out(result) == Outcome(room_id, "uc.reset", player_id, result) IN
    /\ UNCHANGED <<active_connections, ws_open>>
    /\ IF ~exists(room_id)
       THEN last' = out("RoomNotFound") /\ UNCHANGED <<repo, heap>>
       ELSE IF get_player(heap[room_id], player_id) = 0
       THEN last' = out("PlayerNotFound") /\ UNCHANGED <<repo, heap>>
       ELSE /\ save(room_id, reset_votes(heap[room_id]))
            /\ last' = out("ok")

ResetVotesUseCase_execute(room_id, player_id) ==
    LET out(result) == Outcome(room_id, "uc.reset", player_id, result) IN
    /\ UNCHANGED <<active_connections, ws_open>>
    /\ IF ~exists(room_id)
       THEN last' = out("RoomNotFound") /\ UNCHANGED <<repo, heap>>
       ELSE IF get_player(heap[room_id], player_id) = 0
       THEN last' = out("PlayerNotFound") /\ UNCHANGED <<repo, heap>>
       ELSE IF ~heap[room_id].players[player_id].is_facilitator
       THEN last' = out("Unauthorized") /\ UNCHANGED <<repo, heap>>
       ELSE /\ save(room_id, reset_votes(heap[room_id]))
            /\ last' = out("ok")

SetStoryNameUseCase_execute(room_id, story_name) ==
    LET out(result) == [Outcome(room_id, "uc.set_story", 0, result) EXCEPT !.name = story_name]
        name == Strip(story_name)
    IN
    /\ UNCHANGED <<active_connections, ws_open>>
    /\ IF ~exists(room_id)
       THEN last' = out("RoomNotFound") /\ UNCHANGED <<repo, heap>>
       ELSE IF Len(name) > MAX_STORY_NAME_LENGTH
       THEN last' = out("InvalidStoryName") /\ UNCHANGED <<repo, heap>>
       ELSE /\ save(room_id, set_story_name(heap[room_id], name))
            /\ last' = out("ok")

ToggleVotingModeUseCase_execute(room_id, player_id) ==
    LET out(result) == Outcome(room_id, "uc.toggle_voting_mode", player_id, result) IN
    /\ UNCHANGED <<active_connections, ws_open>>
    /\ IF ~exists(room_id)
       THEN last' = out("RoomNotFound") /\ UNCHANGED <<repo, heap>>
       ELSE IF get_player(heap[room_id], player_id) = 0
       THEN last' = out("PlayerNotFound") /\ UNCHANGED <<repo, heap>>
       ELSE IF ~heap[room_id].players[player_id].is_facilitator
       THEN last' = out("Unauthorized") /\ UNCHANGED <<repo, heap>>
       ELSE /\ save(room_id, toggle_voting_mode(heap[room_id]))
            /\ last' = [out("ok") EXCEPT !.mode = toggle_voting_mode(heap[room_id]).voting_mode]

ChangeScaleUseCase_execute(room_id, player_id, scale_name) ==
    LET out(result) == Outcome(room_id, "uc.change_scale", player_id, result) IN
    /\ UNCHANGED <<active_connections, ws_open>>
    /\ IF ~exists(room_id)
       THEN last' = out("RoomNotFound") /\ UNCHANGED <<repo, heap>>
       ELSE IF get_player(heap[room_id], player_id) = 0
       THEN last' = out("PlayerNotFound") /\ UNCHANGED <<repo, heap>>
       ELSE IF ~heap[room_id].players[player_id].is_facilitator
       THEN last' = out("Unauthorized") /\ UNCHANGED <<repo, heap>>
       ELSE /\ save(room_id, set_scale(heap[room_id], scale_name))
            /\ last' = out("ok")

ChangeScaleUseCase_execute_custom(room_id, player_id, values) ==
    LET out(result) == [Outcome(room_id, "uc.set_custom_scale", player_id, result) EXCEPT !.values = values]
        clean_values == CleanValues(values)
    IN
    /\ UNCHANGED <<active_connections, ws_open>>
    /\ IF ~exists(room_id)
       THEN last' = out("RoomNotFound") /\ UNCHANGED <<repo, heap>>
       ELSE IF get_player(heap[room_id], player_id) = 0
       THEN last' = out("PlayerNotFound") /\ UNCHANGED <<repo, heap>>
       ELSE IF ~heap[room_id].players[player_id].is_facilitator
       THEN last' = out("Unauthorized") /\ UNCHANGED <<repo, heap>>
       ELSE IF values = <<>> \/ Len(clean_values) < MIN_SCALE_VALUES
       THEN last' = out("InvalidScale") /\ UNCHANGED <<repo, heap>>
       ELSE /\ save(room_id, set_custom_scale(heap[room_id], clean_values))
            /\ last' = out("ok")

(***************************************************************************)
(* HTTP routes (routes/rooms.py), on the RoomManager (manager.py)          *)
(***************************************************************************)
MAX_ROOM_NAME_LENGTH == 100
MAX_PLAYER_NAME_LENGTH == 50
MAX_PLAYERS_PER_ROOM == 20

create_room(request_name, new_id) ==
    LET room_name == Strip(request_name) IN
    /\ new_id \notin DOMAIN heap
    /\ UNCHANGED <<active_connections, ws_open>>
    /\ IF room_name = <<>> \/ Len(room_name) > MAX_ROOM_NAME_LENGTH
       THEN /\ last' = [Outcome(new_id, "http.create_room", 0, "InvalidRoomName") EXCEPT !.name = request_name]
            /\ UNCHANGED <<repo, heap>>
       ELSE /\ save(new_id, Room_create(new_id, room_name))
            /\ last' = [Outcome(new_id, "http.create_room", 0, "ok") EXCEPT !.name = request_name]

delete_room(room_id) ==
    /\ UNCHANGED <<heap, active_connections, ws_open>>
    /\ IF ~exists(room_id)
       THEN /\ last' = Outcome(room_id, "http.delete_room", 0, "RoomNotFound")
            /\ UNCHANGED repo
       ELSE /\ repo' = repo \ {room_id}
            /\ last' = Outcome(room_id, "http.delete_room", 0, "ok")

join_room(room_id, request_player_name, request_is_observer) ==
    LET out(result) == [Outcome(room_id, "http.join", 0, result) EXCEPT !.name = request_player_name,
                                                               !.flag = request_is_observer]
        player_name == Strip(request_player_name)
    IN
    /\ UNCHANGED <<repo, active_connections, ws_open>>
    /\ IF ~exists(room_id)
       THEN last' = out("RoomNotFound") /\ UNCHANGED heap
       ELSE
       LET room == heap[room_id]
           existing_player == find_player_by_name(room, player_name)
           player_id == Len(room.players) + 1
       IN
       IF player_name = <<>> \/ Len(player_name) > MAX_PLAYER_NAME_LENGTH
       THEN last' = out("InvalidPlayerName") /\ UNCHANGED heap
       ELSE IF existing_player # 0
       THEN /\ mutate(room_id, SetPlayer(room, existing_player,
                        [room.players[existing_player] EXCEPT !.connected = TRUE,
                                                              !.is_observer = request_is_observer]))
            /\ last' = [out("ok") EXCEPT !.ret = existing_player]
       ELSE IF Len(room.players) >= MAX_PLAYERS_PER_ROOM
       THEN last' = out("RoomFull") /\ UNCHANGED heap
       ELSE /\ mutate(room_id, add_player(room,
                        Player_create(player_id, player_name, request_is_observer,
                                      Len(room.players) = 0)))
            /\ last' = [out("ok") EXCEPT !.ret = player_id]

(***************************************************************************)
(* ConnectionManager (infrastructure/web/connection_manager.py)            *)
(***************************************************************************)
\* self.active_connections.get(room_id, {}) as the set of its player ids
connections(ac, room_id) == IF room_id \in DOMAIN ac THEN ac[room_id] ELSE {}

connect(ac, room_id, player_id) ==
    (room_id :> (connections(ac, room_id) \cup {player_id})) @@ ac

\* Faulty variant: the channel stays registered.
disconnect_keep(ac, room_id, player_id) == ac

\* pop the player; delete the room's entry when it is left empty
disconnect(ac, room_id, player_id) ==
    IF room_id \notin DOMAIN ac THEN ac
    ELSE IF ac[room_id] \ {player_id} = {}
         THEN [r \in DOMAIN ac \ {room_id} |-> ac[r]]
         ELSE [ac EXCEPT ![room_id] = @ \ {player_id}]

RECURSIVE DisconnectAll(_, _, _)
DisconnectAll(ac, room_id, pids) ==
    IF pids = {} THEN ac
    ELSE LET p == CHOOSE p \in pids : TRUE
         IN  DisconnectAll(disconnect(ac, room_id, p), room_id, pids \ {p})

\* Faulty variant: a failed send drops every channel of the room.
broadcast_drop_all(ac, room_id, failed) ==
    IF failed \cap connections(ac, room_id) = {} THEN ac
    ELSE DisconnectAll(ac, room_id, connections(ac, room_id))

\* broadcast(room_id, message): every registered channel is sent the message; the
\* channels whose send raises (failed) are disconnected afterwards.
broadcast(ac, room_id, failed) ==
    DisconnectAll(ac, room_id, failed \cap connections(ac, room_id))

(***************************************************************************)
(* WebSocket routes (routes/websocket.py).  A handler holds the Room and   *)
(* Player objects it looked up when the channel opened.                    *)
(***************************************************************************)
handlers(room_id, player_id) ==
    IF <<room_id, player_id>> \in DOMAIN ws_open THEN ws_open[<<room_id, player_id>>] ELSE 0

SetHandlers(room_id, player_id, n) ==
    ws_open' = IF n = 0
               THEN [k \in DOMAIN ws_open \ {<<room_id, player_id>>} |-> ws_open[k]]
               ELSE (<<room_id, player_id>> :> n) @@ ws_open

\* Faulty variant: the vote is in the entry whatever the status.
build_players_data_always(room) ==
    [i \in 1..Len(room.players) |->
        LET player == room.players[i]
            player_data == [ id |-> player.id, name |-> player.name,
                             is_observer |-> player.is_observer,
                             is_facilitator |-> player.is_facilitator,
                             connected |-> player.connected,
                             has_voted |-> has_voted(player) ]
        IN  IF Truthy(player.vote)
            THEN player_data @@ [vote |-> player.vote]
            ELSE player_data]

\* _build_players_data: one entry per player; the vote only in a revealed room and
\* when it is truthy.
build_players_data(room) ==
    [i \in 1..Len(room.players) |->
        LET player == room.players[i]
            player_data == [ id |-> player.id, name |-> player.name,
                             is_observer |-> player.is_observer,
                             is_facilitator |-> player.is_facilitator,
                             connected |-> player.connected,
                             has_voted |-> has_voted(player) ]
        IN  IF room.status = "revealed" /\ Truthy(player.vote)
            THEN player_data @@ [vote |-> player.vote]
            ELSE player_data]

\* _build_history_data: one item per record (its voted_at, a clock reading, is left
\* out); the votes by name only in public mode.
build_history_data(room) ==
    [k \in 1..Len(room.history) |->
        LET story == room.history[k]
            history_item == [ story_name |-> story.story_name,
                              vote_summary |-> story.vote_summary,
                              average |-> story.average,
                              rounded_average |-> story.rounded_average ]
        IN  IF room.voting_mode = "public"
            THEN history_item @@ [votes |-> story.votes]
            ELSE history_item]

\* The message broadcast_room_state builds from the room.
room_update(room) ==
    LET data == [ room_id |-> room.id,
                  room_name |-> room.name,
                  status |-> room.status,
                  voting_mode |-> room.voting_mode,
                  voting_scale |-> room.voting_scale,
                  current_scale |-> get_current_scale(room),
                  story_name |-> room.story_name,
                  players |-> build_players_data(room),
                  all_voted |-> all_voted(room),
                  history |-> build_history_data(room),
                  total_story_points |-> get_total_story_points(room) ]
        average == get_average_vote(room)
        revealed == [ vote_summary |-> get_vote_summary(room), average |-> average ]
    IN  [ type |-> "room_update",
          data |-> IF room.status # "revealed" THEN data
                   ELSE IF average = NoAvg THEN data @@ revealed
                   ELSE data @@ revealed @@ [rounded_average |-> round_to_scale(room, average)] ]

\* Faulty variant: the room is not looked up in the directory before the broadcast.
broadcast_room_state_unchecked(out, room_id, ac, failed) ==
    /\ last' = [out EXCEPT !.broadcast = TRUE, !.recipients = connections(ac, room_id),
                           !.message = room_update(heap'[room_id]),
                           !.failed = failed \cap connections(ac, room_id)]
    /\ active_connections' = broadcast(ac, room_id, failed)

\* broadcast_room_state(room_id) after the handler's own changes (ac: the connections
\* then; heap': the room then): nothing when the repository no longer holds the room.
broadcast_room_state(out, room_id, ac, failed) ==
    IF ~exists(room_id)
    THEN /\ last' = out
         /\ active_connections' = ac
    ELSE /\ last' = [out EXCEPT !.broadcast = TRUE, !.recipients = connections(ac, room_id),
                                !.message = room_update(heap'[room_id]),
                                !.failed = failed \cap connections(ac, room_id)]
         /\ active_connections' = broadcast(ac, room_id, failed)

\* Faulty variant: the error message is sent to every channel of the room.
send_error_to_room(out, player_id) ==
    /\ last' = [out EXCEPT !.error_to = connections(active_connections, out.room)]
    /\ UNCHANGED <<repo, heap, active_connections, ws_open>>

\* await websocket.send_json({"type": "error", ...}) and return
send_error(out, player_id) ==
    /\ last' = [out EXCEPT !.error_to = {player_id}]
    /\ UNCHANGED <<repo, heap, active_connections, ws_open>>

WS_MAX_STORY_NAME_LENGTH == 200
WS_MIN_SCALE_VALUES == 2

\* Faulty variant: the channel is registered before the participant is looked up.
websocket_endpoint_register_first(room_id, player_id, failed) ==
    LET out(result) == Outcome(room_id, "ws.connect", player_id, result) IN
    IF ~exists(room_id)
    THEN last' = out("RoomNotFound") /\ UNCHANGED <<repo, heap, active_connections, ws_open>>
    ELSE IF get_player(heap[room_id], player_id) = 0
    THEN /\ last' = out("PlayerNotFound")
         /\ active_connections' = connect(active_connections, room_id, player_id)
         /\ UNCHANGED <<repo, heap, ws_open>>
    ELSE /\ SetHandlers(room_id, player_id, handlers(room_id, player_id) + 1)
         /\ mutate(room_id, [heap[room_id] EXCEPT !.players[player_id].connected = TRUE])
         /\ broadcast_room_state(out("ok"), room_id,
                                 connect(active_connections, room_id, player_id), failed)
         /\ UNCHANGED repo

\* websocket_endpoint up to its receive loop: the channel opens.
websocket_endpoint(room_id, player_id, failed) ==
    LET out(result) == Outcome(room_id, "ws.connect", player_id, result) IN
    IF ~exists(room_id)
    THEN last' = out("RoomNotFound") /\ UNCHANGED <<repo, heap, active_connections, ws_open>>
    ELSE IF get_player(heap[room_id], player_id) = 0
    THEN last' = out("PlayerNotFound") /\ UNCHANGED <<repo, heap, active_connections, ws_open>>
    ELSE /\ SetHandlers(room_id, player_id, handlers(room_id, player_id) + 1)
         /\ mutate(room_id, [heap[room_id] EXCEPT !.players[player_id].connected = TRUE])
         /\ broadcast_room_state(out("ok"), room_id,
                                 connect(active_connections, room_id, player_id), failed)
         /\ UNCHANGED repo

\* except WebSocketDisconnect: the channel closes.
websocket_disconnect(room_id, player_id, failed) ==
    /\ handlers(room_id, player_id) > 0
    /\ SetHandlers(room_id, player_id, handlers(room_id, player_id) - 1)
    /\ mutate(room_id, [heap[room_id] EXCEPT !.players[player_id].connected = FALSE])
    /\ broadcast_room_state(Outcome(room_id, "ws.disconnect", player_id, "ok"), room_id,
                            disconnect(active_connections, room_id, player_id), failed)
    /\ UNCHANGED repo

handle_vote(room_id, player_id, vote_value, failed) ==
    LET out(result) == [Outcome(room_id, "ws.vote", player_id, result) EXCEPT !.vote = vote_value]
        room == heap[room_id]
    IN
    /\ handlers(room_id, player_id) > 0
    /\ IF vote_value = None
       THEN /\ mutate(room_id, [room EXCEPT !.players[player_id].vote = None])
            /\ broadcast_room_state(out("ok"), room_id, active_connections, failed)
            /\ UNCHANGED <<repo, ws_open>>
       ELSE IF vote_value \notin Range(get_current_scale(room))
       THEN send_error(out("InvalidVote"), player_id)
       ELSE /\ mutate(room_id, [room EXCEPT !.players[player_id].vote = vote_value])
            /\ broadcast_room_state(out("ok"), room_id, active_connections, failed)
            /\ UNCHANGED <<repo, ws_open>>

handle_reveal(room_id, player_id, failed) ==
    /\ handlers(room_id, player_id) > 0
    /\ IF ~heap[room_id].players[player_id].is_facilitator
       THEN send_error(Outcome(room_id, "ws.reveal", player_id, "Unauthorized"), player_id)
       ELSE /\ mutate(room_id, reveal_votes(heap[room_id]))
            /\ broadcast_room_state(Outcome(room_id, "ws.reveal", player_id, "ok"), room_id,
                                    active_connections, failed)
            /\ UNCHANGED <<repo, ws_open>>

handle_reset(room_id, player_id, failed) ==
    /\ handlers(room_id, player_id) > 0
    /\ IF ~heap[room_id].players[player_id].is_facilitator
       THEN send_error(Outcome(room_id, "ws.reset", player_id, "Unauthorized"), player_id)
       ELSE /\ mutate(room_id, reset_votes(heap[room_id]))
            /\ broadcast_room_state(Outcome(room_id, "ws.reset", player_id, "ok"), room_id,
                                    active_connections, failed)
            /\ UNCHANGED <<repo, ws_open>>

handle_set_story(room_id, player_id, data_story_name, failed) ==
    LET out(result) == [Outcome(room_id, "ws.set_story", player_id, result) EXCEPT !.name = data_story_name]
        story_name == Strip(data_story_name)
    IN
    /\ handlers(room_id, player_id) > 0
    /\ IF Len(story_name) > WS_MAX_STORY_NAME_LENGTH
       THEN send_error(out("InvalidStoryName"), player_id)
       ELSE /\ mutate(room_id, [heap[room_id] EXCEPT !.story_name = story_name])
            /\ broadcast_room_state(out("ok"), room_id, active_connections, failed)
            /\ UNCHANGED <<repo, ws_open>>

handle_toggle_voting_mode(room_id, player_id, failed) ==
    /\ handlers(room_id, player_id) > 0
    /\ IF ~heap[room_id].players[player_id].is_facilitator
       THEN send_error(Outcome(room_id, "ws.toggle_voting_mode", player_id, "Unauthorized"), player_id)
       ELSE /\ mutate(room_id, [heap[room_id] EXCEPT !.voting_mode =
                                    IF @ = "public" THEN "anonymous" ELSE "public"])
            /\ broadcast_room_state(Outcome(room_id, "ws.toggle_voting_mode", player_id, "ok"), room_id,
                                    active_connections, failed)
            /\ UNCHANGED <<repo, ws_open>>

\* A missing or empty "scale" is skipped without an answer (result "ignored").
handle_change_scale(room_id, player_id, scale_name, failed) ==
    /\ handlers(room_id, player_id) > 0
    /\ IF ~heap[room_id].players[player_id].is_facilitator
       THEN send_error(Outcome(room_id, "ws.change_scale", player_id, "Unauthorized"), player_id)
       ELSE IF scale_name = ""
       THEN /\ last' = Outcome(room_id, "ws.change_scale", player_id, "ignored")
            /\ UNCHANGED <<repo, heap, active_connections, ws_open>>
       ELSE /\ mutate(room_id, [heap[room_id] EXCEPT !.voting_scale = scale_name,
                                                      !.custom_scale = <<>>])
            /\ broadcast_room_state(Outcome(room_id, "ws.change_scale", player_id, "ok"), room_id,
                                    active_connections, failed)
            /\ UNCHANGED <<repo, ws_open>>

handle_set_custom_scale(room_id, player_id, values, failed) ==
    LET out(result) == [Outcome(room_id, "ws.set_custom_scale", player_id, result) EXCEPT !.values = values]
        custom_values == CleanValues(values)
    IN
    /\ handlers(room_id, player_id) > 0
    /\ IF ~heap[room_id].players[player_id].is_facilitator
       THEN send_error(out("Unauthorized"), player_id)
       ELSE IF values = <<>> \/ Len(values) < WS_MIN_SCALE_VALUES
               \/ Len(custom_values) < WS_MIN_SCALE_VALUES
       THEN send_error(out("InvalidScale"), player_id)
       ELSE /\ mutate(room_id, [heap[room_id] EXCEPT !.custom_scale = custom_values,
                                                      !.voting_scale = "custom"])
            /\ broadcast_room_state(out("ok"), room_id, active_connections, failed)
            /\ UNCHANGED <<repo, ws_open>>

(***************************************************************************)
(* Initial state: an empty repository and no connection.                   *)
(***************************************************************************)
Init ==
    /\ repo = {}
    /\ heap = <<>>
    /\ active_connections = <<>>
    /\ ws_open = <<>>
    /\ last = Outcome("", "init", 0, "ok")
    /\ event_loop = [tasks |-> <<>>, inbox |-> <<>>, order |-> <<>>, started |-> 0]

(***************************************************************************)
(* Bounds and inputs.  Each specification below offers the operations the  *)
(* inputs of one record: the names, vote tokens and scales given by the    *)
(* callers.                                                                *)
(***************************************************************************)
MaxPlayers == 2      \* participants in a room on which the other operations are exercised
MaxHistory == 2      \* estimation records a room accumulates where rounds are studied
MaxArchive == 1      \* estimation records a room accumulates elsewhere
MaxHandlers == 1     \* channels one participant holds open at a time
MaxRounds == 3       \* rounds of one item a room archives where round numbers are studied
MaxBroadcasts == 3    \* broadcasts started in the specification of the await points

RoomIds == {"r1"}

Al == <<"A", "l">>
Bo == <<"B", "o">>
Cy == <<"C", "y">>

\* The k-th distinct participant name of a room that is filled to its cap.
NameOf(k) == IF k = 1 THEN Al ELSE IF k = 2 THEN Bo ELSE IF k = 3 THEN Cy ELSE [i \in 1..k |-> "n"]

\* The player ids the room has given out.
Participants(room_id) ==
    1..(IF room_id \in DOMAIN heap THEN Len(heap[room_id].players) ELSE 0)

\* The player ids offered as callers: the participants and, with cfg.strangers, the
\* id 0 that nobody has.
Callers(cfg, room_id) ==
    Participants(room_id) \cup (IF cfg.strangers THEN {0} ELSE {})

\* A room in which nothing but joins has happened.
JoinedOnly(room_id) ==
    /\ connections(active_connections, room_id) = {}
    /\ \A p \in Participants(room_id) : handlers(room_id, p) = 0
    /\ LET room == heap[room_id] IN
       room = [Room_create(room.id, room.name) EXCEPT !.players =
                  [i \in 1..Len(room.players) |->
                      Player_create(i, room.players[i].name, room.players[i].is_observer,
                                    i = 1)]]

\* The model fills a room to MaxPlayers participants; with cfg.fill it goes on to the
\* code's cap in a room where nothing but joins has happened.
JoinBound(cfg, room_id, name) ==
    IF ~exists(room_id) THEN TRUE
    ELSE IF find_player_by_name(heap[room_id], Strip(name)) # 0 THEN TRUE
    ELSE IF player_count(heap[room_id]) < MaxPlayers THEN TRUE
    ELSE cfg.fill /\ JoinedOnly(room_id)

\* The names offered to a join: those of cfg.player_names up to the first that is not
\* in the room yet (participants arrive in the order of the list), the names of
\* cfg.other_names at any time and, with cfg.fill, the name of the next distinct
\* participant.
JoinNames(cfg, room_id) ==
    LET count == IF room_id \in DOMAIN heap THEN player_count(heap[room_id]) ELSE 0 IN
    {cfg.player_names[k] : k \in {j \in 1..Len(cfg.player_names) : j <= count + 1}}
    \cup cfg.other_names
    \cup (IF cfg.fill /\ room_id \in DOMAIN heap THEN {NameOf(count + 1)} ELSE {})

\* The other operations are exercised on rooms of at most MaxPlayers participants.
OpsBound(room_id) ==
    IF room_id \notin DOMAIN heap THEN TRUE
    ELSE player_count(heap[room_id]) <= MaxPlayers

\* The model stops archiving at cfg.max_history records.
ResetBound(cfg, room_id) ==
    IF room_id \notin DOMAIN heap THEN TRUE
    ELSE Len(reset_votes(heap[room_id]).history) <= cfg.max_history

\* The sends of a broadcast that fail: none, or with cfg.send_failures any of them.
Failures(cfg, room_id) ==
    IF cfg.send_failures THEN SUBSET connections(active_connections, room_id) ELSE {{}}

(***************************************************************************)
(* The operations, with their inputs drawn from a record                   *)
(***************************************************************************)
CreateRoom(cfg) ==
    \E n \in cfg.room_names, id \in RoomIds : CreateRoomUseCase_execute(n, id) /\ UNCHANGED event_loop

DeleteRoom(cfg) == \E r \in RoomIds : DeleteRoomUseCase_execute(r) /\ UNCHANGED event_loop

JoinRoom(cfg) ==
    \E r \in RoomIds : \E n \in JoinNames(cfg, r), o \in cfg.observers :
        JoinBound(cfg, r, n) /\ JoinRoomUseCase_execute(r, n, o) /\ UNCHANGED event_loop

Vote(cfg) ==
    \E r \in RoomIds : \E p \in Callers(cfg, r), v \in cfg.votes :
        OpsBound(r) /\ VoteUseCase_execute(r, p, v) /\ UNCHANGED event_loop

Reveal(cfg) ==
    \E r \in RoomIds : \E p \in Callers(cfg, r) : OpsBound(r) /\ RevealVotesUseCase_execute(r, p) /\ UNCHANGED event_loop

Reset(cfg) ==
    \E r \in RoomIds : \E p \in Callers(cfg, r) :
        OpsBound(r) /\ ResetBound(cfg, r) /\ ResetVotesUseCase_execute(r, p) /\ UNCHANGED event_loop

SetStory(cfg) ==
    \E r \in RoomIds, n \in cfg.stories : OpsBound(r) /\ SetStoryNameUseCase_execute(r, n) /\ UNCHANGED event_loop

ToggleMode(cfg) ==
    \E r \in RoomIds : \E p \in Callers(cfg, r) :
        OpsBound(r) /\ ToggleVotingModeUseCase_execute(r, p) /\ UNCHANGED event_loop

ChangeScale(cfg) ==
    \E r \in RoomIds : \E p \in Callers(cfg, r), n \in cfg.scale_names :
        OpsBound(r) /\ ChangeScaleUseCase_execute(r, p, n) /\ UNCHANGED event_loop

SetCustomScale(cfg) ==
    \E r \in RoomIds : \E p \in Callers(cfg, r), v \in cfg.custom_scales :
        OpsBound(r) /\ ChangeScaleUseCase_execute_custom(r, p, v) /\ UNCHANGED event_loop

HttpCreateRoom(cfg) == \E n \in cfg.room_names, id \in RoomIds : create_room(n, id) /\ UNCHANGED event_loop

HttpDeleteRoom(cfg) == \E r \in RoomIds : delete_room(r) /\ UNCHANGED event_loop

HttpJoinRoom(cfg) ==
    \E r \in RoomIds : \E n \in JoinNames(cfg, r), o \in cfg.observers :
        JoinBound(cfg, r, n) /\ join_room(r, n, o) /\ UNCHANGED event_loop

WsConnect(cfg) ==
    \E r \in RoomIds : \E p \in Callers(cfg, r) :
        \E f \in Failures(cfg, r) \cup {g \cup {p} : g \in Failures(cfg, r) \ {{}}} :
            /\ OpsBound(r)
            /\ handlers(r, p) < MaxHandlers
            /\ websocket_endpoint(r, p, f)
            /\ UNCHANGED event_loop

WsDisconnect(cfg) ==
    \E r \in RoomIds : \E p \in Callers(cfg, r), f \in Failures(cfg, r) :
        OpsBound(r) /\ websocket_disconnect(r, p, f) /\ UNCHANGED event_loop

WsVote(cfg) ==
    \E r \in RoomIds : \E p \in Callers(cfg, r), v \in cfg.votes, f \in Failures(cfg, r) :
        OpsBound(r) /\ handle_vote(r, p, v, f) /\ UNCHANGED event_loop

WsReveal(cfg) ==
    \E r \in RoomIds : \E p \in Callers(cfg, r), f \in Failures(cfg, r) :
        OpsBound(r) /\ handle_reveal(r, p, f) /\ UNCHANGED event_loop

WsReset(cfg) ==
    \E r \in RoomIds : \E p \in Callers(cfg, r), f \in Failures(cfg, r) :
        OpsBound(r) /\ ResetBound(cfg, r) /\ handle_reset(r, p, f) /\ UNCHANGED event_loop

WsSetStory(cfg) ==
    \E r \in RoomIds : \E p \in Callers(cfg, r), n \in cfg.stories, f \in Failures(cfg, r) :
        OpsBound(r) /\ handle_set_story(r, p, n, f) /\ UNCHANGED event_loop

WsToggleMode(cfg) ==
    \E r \in RoomIds : \E p \in Callers(cfg, r), f \in Failures(cfg, r) :
        OpsBound(r) /\ handle_toggle_voting_mode(r, p, f) /\ UNCHANGED event_loop

WsChangeScale(cfg) ==
    \E r \in RoomIds : \E p \in Callers(cfg, r), n \in cfg.scale_names \cup cfg.ws_scale_names,
                          f \in Failures(cfg, r) :
        OpsBound(r) /\ handle_change_scale(r, p, n, f) /\ UNCHANGED event_loop

WsSetCustomScale(cfg) ==
    \E r \in RoomIds : \E p \in Callers(cfg, r), v \in cfg.custom_scales, f \in Failures(cfg, r) :
        OpsBound(r) /\ handle_set_custom_scale(r, p, v, f) /\ UNCHANGED event_loop

(***************************************************************************)
(* Spec: estimation rounds through the use cases.  Participants and        *)
(* observers join, vote, the facilitator names the item, reveals and       *)
(* resets; every reset with an item name and a counted vote archives.      *)
(***************************************************************************)
RoundInputs ==
    [ room_names |-> {<<"S">>},
      player_names |-> <<Al, Bo>>,
      other_names |-> {},
      observers |-> BOOLEAN,
      votes |-> {None, "1"},
      stories |-> {<<>>, <<"A">>, <<" ", "B">>},
      scale_names |-> {},
      ws_scale_names |-> {},
      custom_scales |-> {},
      strangers |-> FALSE,
      fill |-> FALSE,
      max_history |-> MaxHistory,
      send_failures |-> FALSE ]

Next ==
    \/ CreateRoom(RoundInputs)
    \/ JoinRoom(RoundInputs)
    \/ Vote(RoundInputs)
    \/ Reveal(RoundInputs)
    \/ Reset(RoundInputs)
    \/ SetStory(RoundInputs)

Spec == Init /\ [][Next]_vars

(***************************************************************************)
(* Properties of a reset (Room.reset_votes, Room.update_or_add_history)    *)
(***************************************************************************)
\* The step is a reset that was applied (by the use case or by a channel handler).
AppliedReset == last'.op \in {"uc.reset", "ws.reset"} /\ last'.result = "ok"

\* The room of the step, before and after it.
RoomBefore == heap[last'.room]
RoomAfter == heap'[last'.room]

\* A non-observer participant holds a non-empty vote.
HasCountedVote(room) ==
    \E i \in 1..Len(room.players) :
        ~room.players[i].is_observer /\ room.players[i].vote \notin {None, ""}

\* C1: a reset of a room whose item name is non-empty and in which a non-observer
\* holds a non-empty vote appends exactly one record; the record carries the item
\* name and is not superseded; every earlier record of that name is superseded
\* afterwards, and the records of other names are unchanged.
C1_ResetArchivesOneRecord ==
    [][ AppliedReset /\ RoomBefore.story_name # <<>> /\ HasCountedVote(RoomBefore) =>
        LET before == RoomBefore.history
            after == RoomAfter.history
            n == Len(before)
        IN  /\ Len(after) = n + 1
            /\ after[n + 1].story_name = RoomBefore.story_name
            /\ after[n + 1].is_superseded = FALSE
            /\ \A i \in 1..n :
                  IF before[i].story_name = RoomBefore.story_name
                  THEN after[i].is_superseded = TRUE
                  ELSE after[i] = before[i] ]_vars

\* A reset has been applied and the room holds two records of one item name, the
\* second archived over the first.
C1_Witness ==
    /\ last.op = "uc.reset" /\ last.result = "ok"
    /\ LET h == heap[last.room].history IN
       /\ Len(h) = 2
       /\ h[1].story_name = h[2].story_name
       /\ h[1].is_superseded /\ ~h[2].is_superseded

\* C2: in every room, a record that is not superseded is the last record of its item
\* name in history order; so each item name has at most one such record.
C2_OneCurrentRecordPerItem ==
    \A r \in DOMAIN heap :
        LET h == heap[r].history IN
        \A i \in 1..Len(h) :
            ~h[i].is_superseded =>
                /\ \A j \in 1..Len(h) : h[j].story_name = h[i].story_name => j <= i
                /\ \A j \in 1..Len(h) :
                      (h[j].story_name = h[i].story_name /\ ~h[j].is_superseded) => j = i

\* A room whose history holds round 1 and round 2 of one item.
C2_Witness ==
    \E r \in DOMAIN heap :
        LET h == heap[r].history IN
        /\ Len(h) = 2
        /\ h[1].story_name = h[2].story_name
        /\ h[1].round_number = 1 /\ h[2].round_number = 2

\* C3: after a reset every participant's vote is empty, the item name is the empty
\* string and the status is Voting; when the item name was empty or no non-observer
\* held a non-empty vote, the history is the one before the reset.
C3_ResetClearsRound ==
    [][ AppliedReset =>
        /\ \A i \in 1..Len(RoomAfter.players) : RoomAfter.players[i].vote = None
        /\ Len(RoomAfter.players) = Len(RoomBefore.players)
        /\ RoomAfter.story_name = <<>>
        /\ RoomAfter.status = "voting"
        /\ (RoomBefore.story_name = <<>> \/ ~HasCountedVote(RoomBefore)
               => RoomAfter.history = RoomBefore.history) ]_vars

\* A reset has been applied in a room with a voter and an observer and one record:
\* the votes, the item name and the status are those of a fresh round.
C3_Witness ==
    /\ last.op = "uc.reset" /\ last.result = "ok"
    /\ LET room == heap[last.room] IN
       /\ Len(room.history) = 1
       /\ Len(room.players) = 2
       /\ room.players[2].is_observer
       /\ room.status = "voting" /\ room.story_name = <<>>

(***************************************************************************)
(* SpecPresence: participants join and come back by name (through the use  *)
(* case and through the HTTP route), open and close their channel, vote.   *)
(***************************************************************************)
PresenceInputs ==
    [ room_names |-> {<<"S">>},
      player_names |-> <<Al, Bo>>,
      other_names |-> {<<" ", "A", "L", " ">>},
      observers |-> BOOLEAN,
      votes |-> {None, "1"},
      stories |-> {},
      scale_names |-> {},
      ws_scale_names |-> {},
      custom_scales |-> {},
      strangers |-> FALSE,
      fill |-> FALSE,
      max_history |-> MaxArchive,
      send_failures |-> FALSE ]

NextPresence ==
    \/ CreateRoom(PresenceInputs)
    \/ JoinRoom(PresenceInputs)
    \/ HttpJoinRoom(PresenceInputs)
    \/ Vote(PresenceInputs)
    \/ WsConnect(PresenceInputs)
    \/ WsDisconnect(PresenceInputs)

SpecPresence == Init /\ [][NextPresence]_vars

(***************************************************************************)
(* Properties of presence                                                  *)
(***************************************************************************)
\* The active voters of a room: the participants that are not observers and are
\* connected.
ActiveVoters(room) ==
    {i \in 1..Len(room.players) : ~room.players[i].is_observer /\ room.players[i].connected}

\* C4: in every room all_voted() is true exactly when there is an active voter and
\* every active voter holds a non-empty vote; without an active voter it is false,
\* and observers and disconnected participants are not waited for.
C4_AllVotedIffActiveVotersVoted ==
    \A r \in DOMAIN heap :
        LET room == heap[r] IN
        /\ all_voted(room) <=>
              /\ ActiveVoters(room) # {}
              /\ \A i \in ActiveVoters(room) : room.players[i].vote \notin {None, ""}
        /\ ActiveVoters(room) = {} => ~all_voted(room)

\* all_voted() is true in a room where a disconnected voter holds no vote.
C4_Witness ==
    \E r \in DOMAIN heap :
        LET room == heap[r] IN
        /\ all_voted(room)
        /\ \E i \in 1..Len(room.players) :
              /\ ~room.players[i].is_observer
              /\ ~room.players[i].connected
              /\ room.players[i].vote = None

\* The step is a join, by the use case or by the HTTP route.
JoinStep == last'.op \in {"uc.join", "http.join"}

\* Two display names are equal ignoring case, after trimming.
SameName(a, b) == Lower(Strip(a)) = Lower(Strip(b))

\* C9: a join to a room with a name that equals, ignoring case and after trimming, the
\* name of a participant succeeds and returns that participant's id; the participant
\* is connected afterwards and has the observer flag of the request; the count and
\* everything else in the room are as before.
C9_JoinByNameReturnsParticipant ==
    [][ JoinStep /\ last'.room \in repo =>
        \A i \in 1..Len(RoomBefore.players) :
            SameName(last'.name, RoomBefore.players[i].name) =>
                /\ last'.result = "ok"
                /\ last'.ret = i
                /\ Len(RoomAfter.players) = Len(RoomBefore.players)
                /\ RoomAfter.players[i].connected
                /\ RoomAfter.players[i].is_observer = last'.flag
                /\ RoomAfter = [RoomBefore EXCEPT !.players[i].connected = TRUE,
                                                  !.players[i].is_observer = last'.flag] ]_vars

\* A join with " AL " has returned the id of "Al", who holds no channel, and made
\* this participant an observer; the room still has its two participants.
C9_Witness ==
    /\ last.op \in {"uc.join", "http.join"} /\ last.result = "ok"
    /\ last.name = <<" ", "A", "L", " ">> /\ last.flag /\ last.ret = 1
    /\ handlers(last.room, 1) = 0
    /\ LET room == heap[last.room] IN
       /\ Len(room.players) = 2
       /\ room.players[1].name = Al
       /\ room.players[1].connected /\ room.players[1].is_observer

(***************************************************************************)
(* SpecScale: participants vote, through the use case and through their    *)
(* channel, while the facilitator changes the scale.                       *)
(***************************************************************************)
ScaleInputs ==
    [ room_names |-> {<<"S">>},
      player_names |-> <<Al, Bo>>,
      other_names |-> {},
      observers |-> {FALSE},
      votes |-> {None, "1", "0.5", "XL", ""},
      stories |-> {},
      scale_names |-> {"fibonacci", "t_shirt"},
      ws_scale_names |-> {"bogus"},
      custom_scales |-> {<<" 1 ", "  ", " 3">>},
      strangers |-> FALSE,
      fill |-> FALSE,
      max_history |-> MaxArchive,
      send_failures |-> FALSE ]

NextScale ==
    \/ CreateRoom(ScaleInputs)
    \/ JoinRoom(ScaleInputs)
    \/ Vote(ScaleInputs)
    \/ ChangeScale(ScaleInputs)
    \/ SetCustomScale(ScaleInputs)
    \/ WsConnect(ScaleInputs)
    \/ WsVote(ScaleInputs)
    \/ WsChangeScale(ScaleInputs)
    \/ WsSetCustomScale(ScaleInputs)

SpecScale == Init /\ [][NextScale]_vars

(***************************************************************************)
(* Properties of votes and scales                                          *)
(***************************************************************************)
\* C5: every participant's vote is empty or a member of the room's current scale
\* values, in every state, those after a change of scale included.
C5_VotesBelongToCurrentScale ==
    \A r \in DOMAIN heap :
        \A i \in 1..Len(heap[r].players) :
            \/ heap[r].players[i].vote = None
            \/ heap[r].players[i].vote \in Range(get_current_scale(heap[r]))

\* The step is a Cast Vote that found its room and its player.
VoteStep ==
    /\ last'.op \in {"uc.vote", "ws.vote"}
    /\ last'.result \notin {"RoomNotFound", "PlayerNotFound"}

\* C6: a Cast Vote with the empty vote succeeds and clears the caller's vote; with a
\* token it succeeds and stores the token exactly when the token is among the current
\* scale values, and otherwise fails with Invalid Vote and changes nothing.  Nothing
\* but the caller's vote changes in either case.
C6_CastVote ==
    [][ VoteStep =>
        LET token == last'.vote
            caller == last'.player
        IN  IF token = None
            THEN /\ last'.result = "ok"
                 /\ RoomAfter = [RoomBefore EXCEPT !.players[caller].vote = None]
            ELSE IF token \in Range(get_current_scale(RoomBefore))
            THEN /\ last'.result = "ok"
                 /\ RoomAfter = [RoomBefore EXCEPT !.players[caller].vote = token]
            ELSE /\ last'.result = "InvalidVote"
                 /\ heap' = heap ]_vars

\* A vote "XL" has been refused on the custom scale 1, 3 while the caller keeps the
\* earlier vote and the other participant holds one too.
C6_Witness ==
    /\ last.op \in {"uc.vote", "ws.vote"} /\ last.result = "InvalidVote"
    /\ last.vote = "XL"
    /\ LET room == heap[last.room] IN
       /\ room.custom_scale = <<"1", "3">>
       /\ Len(room.players) = 2
       /\ room.players[last.player].vote = "1"
       /\ room.players[3 - last.player].vote = "1"

(***************************************************************************)
(* SpecAuth: the facilitator and another participant both try the          *)
(* facilitator's operations, through the use cases and through their       *)
(* channels, in rounds that are voted, named and archived.                 *)
(***************************************************************************)
AuthInputs ==
    [ room_names |-> {<<"S">>},
      player_names |-> <<Al, Bo>>,
      other_names |-> {},
      observers |-> {FALSE},
      votes |-> {"1"},
      stories |-> {<<"A">>},
      scale_names |-> {"fibonacci"},
      ws_scale_names |-> {},
      custom_scales |-> {<<" 1 ", "  ", " 3">>},
      strangers |-> FALSE,
      fill |-> FALSE,
      max_history |-> MaxArchive,
      send_failures |-> FALSE ]

NextAuth ==
    \/ CreateRoom(AuthInputs)
    \/ JoinRoom(AuthInputs)
    \/ Vote(AuthInputs)
    \/ SetStory(AuthInputs)
    \/ Reveal(AuthInputs)
    \/ Reset(AuthInputs)
    \/ ToggleMode(AuthInputs)
    \/ ChangeScale(AuthInputs)
    \/ SetCustomScale(AuthInputs)
    \/ WsConnect(AuthInputs)
    \/ WsReveal(AuthInputs)
    \/ WsReset(AuthInputs)
    \/ WsToggleMode(AuthInputs)
    \/ WsChangeScale(AuthInputs)
    \/ WsSetCustomScale(AuthInputs)

SpecAuth == Init /\ [][NextAuth]_vars

(***************************************************************************)
(* Properties of the facilitator's operations                              *)
(***************************************************************************)
FacilitatorOps ==
    {"uc.reveal", "uc.reset", "uc.toggle_voting_mode", "uc.change_scale",
     "uc.set_custom_scale", "ws.reveal", "ws.reset", "ws.toggle_voting_mode",
     "ws.change_scale", "ws.set_custom_scale"}

\* What only the facilitator's operations may change in a room.
Governed(room) ==
    <<room.status, room.voting_mode, room.voting_scale, room.custom_scale, room.history>>

\* C7: Reveal, Reset, Toggle Mode, Change Scale and Set Custom Scale called by a
\* participant who is not a facilitator fail with Unauthorized and change nothing;
\* and the status, the voting mode, the scale and the history of a room change only
\* in a step of one of these operations called by a facilitator.
C7_FacilitatorOnly ==
    [][ /\ ( /\ last'.op \in FacilitatorOps
             /\ last'.result \notin {"RoomNotFound", "PlayerNotFound"}
             /\ ~RoomBefore.players[last'.player].is_facilitator )
           => /\ last'.result = "Unauthorized"
              /\ UNCHANGED <<repo, heap>>
        /\ \A r \in DOMAIN heap :
              Governed(heap'[r]) # Governed(heap[r]) =>
                 /\ last'.op \in FacilitatorOps
                 /\ last'.room = r
                 /\ last'.result = "ok"
                 /\ heap[r].players[last'.player].is_facilitator ]_vars

\* The second participant has been refused a custom scale on the channel, in a room
\* that the facilitator has revealed, switched to anonymous, rescaled and archived.
C7_Witness ==
    /\ last.op = "ws.set_custom_scale" /\ last.result = "Unauthorized"
    /\ last.player = 2
    /\ LET room == heap[last.room] IN
       /\ ~room.players[2].is_facilitator
       /\ room.status = "revealed"
       /\ room.voting_mode = "anonymous"
       /\ room.voting_scale = "fibonacci"
       /\ room.history # <<>>

(***************************************************************************)
(* SpecErr: every operation, through the use cases, the HTTP routes and    *)
(* the channels, with the inputs it refuses next to the ones it takes:     *)
(* blank and over-long names, unknown rooms and players, tokens outside    *)
(* the scale, scales too short, callers who are not the facilitator, and   *)
(* one more participant than the room's cap.                               *)
(***************************************************************************)
ErrInputs ==
    [ room_names |-> {<<"S">>, <<" ">>, Fill(MAX_NAME_LENGTH + 1)},
      player_names |-> <<Al, Bo>>,
      other_names |-> {<<" ">>, Fill(MAX_PLAYER_NAME_LENGTH + 1)},
      observers |-> {FALSE},
      votes |-> {None, "XL"},
      stories |-> {<<" ">>, Fill(MAX_STORY_NAME_LENGTH + 1)},
      scale_names |-> {"fibonacci"},
      ws_scale_names |-> {},
      custom_scales |-> {<<" 1 ", " 3">>, <<"1", "  ">>},
      strangers |-> TRUE,
      fill |-> TRUE,
      max_history |-> MaxArchive,
      send_failures |-> FALSE ]

NextErr ==
    \/ CreateRoom(ErrInputs)
    \/ DeleteRoom(ErrInputs)
    \/ JoinRoom(ErrInputs)
    \/ Vote(ErrInputs)
    \/ Reveal(ErrInputs)
    \/ Reset(ErrInputs)
    \/ SetStory(ErrInputs)
    \/ ToggleMode(ErrInputs)
    \/ ChangeScale(ErrInputs)
    \/ SetCustomScale(ErrInputs)
    \/ HttpCreateRoom(ErrInputs)
    \/ HttpDeleteRoom(ErrInputs)
    \/ HttpJoinRoom(ErrInputs)
    \/ WsConnect(ErrInputs)
    \/ WsVote(ErrInputs)
    \/ WsReveal(ErrInputs)
    \/ WsReset(ErrInputs)
    \/ WsSetStory(ErrInputs)
    \/ WsToggleMode(ErrInputs)
    \/ WsChangeScale(ErrInputs)
    \/ WsSetCustomScale(ErrInputs)

SpecErr == Init /\ [][NextErr]_vars

(***************************************************************************)
(* Properties of failures and of the cap                                   *)
(***************************************************************************)
FailureResults ==
    {"RoomNotFound", "PlayerNotFound", "Unauthorized", "InvalidVote", "InvalidScale",
     "InvalidStoryName", "InvalidPlayerName", "InvalidRoomName", "RoomFull"}

\* The operations a channel handler answers with an error message.
ChannelOps ==
    {"ws.vote", "ws.reveal", "ws.reset", "ws.set_story", "ws.toggle_voting_mode",
     "ws.change_scale", "ws.set_custom_scale"}

\* C8: an operation that fails leaves every room and the directory as they were and
\* no room_update is broadcast; on the channel path the error message goes to the
\* caller's channel and to no other, and off it no channel is sent anything.
C8_FailuresChangeNothing ==
    [][ last'.result \in FailureResults =>
        /\ UNCHANGED <<repo, heap, active_connections, ws_open>>
        /\ ~last'.broadcast
        /\ last'.recipients = {}
        /\ last'.error_to = IF last'.op \in ChannelOps THEN {last'.player} ELSE {} ]_vars

\* The second participant's vote "XL" has been refused on the channel while both
\* participants are registered: the error went to the second participant only.
C8_Witness ==
    /\ last.op = "ws.vote" /\ last.result = "InvalidVote"
    /\ last.player = 2
    /\ connections(active_connections, last.room) = {1, 2}
    /\ last.error_to = {2}
    /\ ~last.broadcast

\* The name given to a join is one the route and the use case accept.
ValidPlayerName(name) == Strip(name) # <<>> /\ Len(Strip(name)) <= 50

\* C10: no room ever holds more than 20 participants; a join to a room of 20 with a
\* name none of them has fails, with Room Full when the name is valid, and adds
\* nobody; a join with the name of one of the 20 succeeds.
C10_RoomCap ==
    /\ [](\A r \in DOMAIN heap : Len(heap[r].players) <= 20)
    /\ [][ JoinStep /\ last'.room \in repo /\ Len(RoomBefore.players) = 20 =>
           IF \E i \in 1..20 : SameName(last'.name, RoomBefore.players[i].name)
           THEN /\ last'.result = "ok"
                /\ Len(RoomAfter.players) = 20
           ELSE /\ last'.result \in {"RoomFull", "InvalidPlayerName"}
                /\ ValidPlayerName(last'.name) => last'.result = "RoomFull"
                /\ heap' = heap ]_vars

\* A join with a twenty-first name has been refused with Room Full in a room that
\* holds 20 participants.
C10_Witness ==
    /\ last.op \in {"uc.join", "http.join"} /\ last.result = "RoomFull"
    /\ last.name = NameOf(21)
    /\ Len(heap[last.room].players) = 20

(***************************************************************************)
(* Properties of the facilitator                                           *)
(***************************************************************************)
\* C11: in a room that has participants, the first to have joined is a facilitator
\* and nobody else is; and no participant's is_facilitator flag changes in any step,
\* whether the facilitator closes the channel, comes back by name or comes back as an
\* observer.
C11_FirstParticipantIsTheFacilitator ==
    /\ [](\A r \in DOMAIN heap :
             \A i \in 1..Len(heap[r].players) :
                 heap[r].players[i].is_facilitator <=> i = 1)
    /\ [][ \A r \in DOMAIN heap :
              \A i \in 1..Len(heap[r].players) :
                  /\ i <= Len(heap'[r].players)
                  /\ heap'[r].players[i].is_facilitator = heap[r].players[i].is_facilitator
                  /\ heap'[r].players[i].name = heap[r].players[i].name ]_vars

\* The facilitator has come back by name as an observer and has closed the channel;
\* the second participant is connected and is not a facilitator.
C11_Witness ==
    \E r \in DOMAIN heap :
        LET room == heap[r] IN
        /\ Len(room.players) = 2
        /\ room.players[1].is_facilitator
        /\ room.players[1].is_observer /\ ~room.players[1].connected
        /\ ~room.players[2].is_facilitator /\ room.players[2].connected
        /\ last.op = "ws.disconnect" /\ last.player = 1

(***************************************************************************)
(* Properties of observers                                                 *)
(***************************************************************************)
\* C12: an observer cannot vote: a Cast Vote called by a participant whose is_observer
\* flag is true never leaves that participant holding a non-empty vote.
C12_ObserverCannotVote ==
    [][ (VoteStep /\ RoomBefore.players[last'.player].is_observer)
            => RoomAfter.players[last'.player].vote \in {None, ""} ]_vars

(***************************************************************************)
(* SpecPoints: one participant estimates two items over several rounds     *)
(* with numeric and non-numeric tokens; every reset archives.              *)
(***************************************************************************)
PointsInputs ==
    [ room_names |-> {<<"S">>},
      player_names |-> <<Al>>,
      other_names |-> {},
      observers |-> {FALSE},
      votes |-> {"1", "5", "?"},
      stories |-> {<<"A">>, <<"B">>},
      scale_names |-> {},
      ws_scale_names |-> {},
      custom_scales |-> {},
      strangers |-> FALSE,
      fill |-> FALSE,
      max_history |-> MaxRounds,
      send_failures |-> FALSE ]

NextPoints ==
    \/ CreateRoom(PointsInputs)
    \/ JoinRoom(PointsInputs)
    \/ Vote(PointsInputs)
    \/ SetStory(PointsInputs)
    \/ Reset(PointsInputs)

SpecPoints == Init /\ [][NextPoints]_vars

(***************************************************************************)
(* Properties of the total of story points                                 *)
(***************************************************************************)
\* Twice the number a rounded average stands for; 0 when it is absent or no number.
Points2(rounded_average) ==
    IF rounded_average \in DOMAIN FloatTable THEN FloatTable[rounded_average] ELSE 0

\* The position of the latest record of an item name.
LatestOf(history, story_name) ==
    CHOOSE i \in 1..Len(history) :
        /\ history[i].story_name = story_name
        /\ \A j \in 1..Len(history) : history[j].story_name = story_name => j <= i

\* The sum, over a set of item names, of the points of the latest record of each.
RECURSIVE LatestPoints2(_, _)
LatestPoints2(history, names) ==
    IF names = {} THEN 0
    ELSE LET n == CHOOSE n \in names : TRUE
         IN  Points2(history[LatestOf(history, n)].rounded_average)
             + LatestPoints2(history, names \ {n})

\* The sum of the points of the records at a set of positions.
RECURSIVE PointsAt2(_, _)
PointsAt2(history, positions) ==
    IF positions = {} THEN 0
    ELSE LET i == CHOOSE i \in positions : TRUE
         IN  Points2(history[i].rounded_average) + PointsAt2(history, positions \ {i})

\* C13: the total of story points is the sum of the numeric rounded averages of the
\* records that are not superseded, which is the sum over the item names of the
\* rounded average of the latest record of the name; absent and non-numeric rounded
\* averages and superseded records add nothing.
C13_TotalPointsCountLatestRounds ==
    \A r \in DOMAIN heap :
        LET h == heap[r].history IN
        /\ get_total_story_points(heap[r])
              = PointsAt2(h, {i \in 1..Len(h) : ~h[i].is_superseded})
        /\ get_total_story_points(heap[r])
              = LatestPoints2(h, {h[i].story_name : i \in 1..Len(h)})

\* Item A was estimated 1 and then 5: the total is 5, the superseded 1 is left out.
C13_Witness ==
    \E r \in DOMAIN heap :
        LET h == heap[r].history IN
        /\ Len(h) = 2
        /\ h[1].story_name = <<"A">> /\ h[1].rounded_average = "1" /\ h[1].is_superseded
        /\ h[2].story_name = <<"A">> /\ h[2].rounded_average = "5"
        /\ get_total_story_points(heap[r]) = 10

(***************************************************************************)
(* Rounding: rounds of two voters archived under several scales            *)
(***************************************************************************)
RoundingInputs ==
    [ room_names |-> {<<"S">>},
      player_names |-> <<Al, Bo>>,
      other_names |-> {},
      observers |-> {FALSE},
      votes |-> {"2", "5", "8"},
      stories |-> {<<"A">>},
      scale_names |-> {"t_shirt"},
      ws_scale_names |-> {},
      custom_scales |-> {<<"1", "3">>, <<"3", "1">>, <<"nan", "1">>},
      strangers |-> FALSE,
      fill |-> FALSE,
      max_history |-> MaxArchive,
      send_failures |-> FALSE ]

NextRounding ==
    \/ CreateRoom(RoundingInputs)
    \/ JoinRoom(RoundingInputs)
    \/ Vote(RoundingInputs)
    \/ SetStory(RoundingInputs)
    \/ ChangeScale(RoundingInputs)
    \/ SetCustomScale(RoundingInputs)
    \/ Reset(RoundingInputs)

SpecRounding == Init /\ [][NextRounding]_vars

(***************************************************************************)
(* Properties of rounding                                                  *)
(***************************************************************************)
\* The step is a reset that archives a round with an average: the rounding is applied
\* to the average of the room under the scale of the room.
RoundingStep ==
    /\ AppliedReset
    /\ Len(RoomAfter.history) = Len(RoomBefore.history) + 1
    /\ Mean(NumericVotes(Counted(RoomBefore))) # NoAvg

\* values[i] stands for a number that is nearest to avg among the numbers of the
\* scale, and no earlier token of the scale is as near.
IsNearestFirst(values, avg, i) ==
    /\ values[i] \in DOMAIN FloatTable
    /\ \A j \in 1..Len(values) :
          values[j] \in DOMAIN FloatTable =>
              /\ Distance(values[i], avg) <= Distance(values[j], avg)
              /\ j < i => Distance(values[i], avg) < Distance(values[j], avg)

\* The rounded average the step archived is the nearest token, or None under a scale
\* without a numeric token.
ArchivedNearest ==
    LET values == get_voting_scale(RoomBefore)
        avg == Mean(NumericVotes(Counted(RoomBefore)))
        rounded == RoomAfter.history[Len(RoomAfter.history)].rounded_average
    IN  IF \A i \in 1..Len(values) : ~IsFloat(values[i])
        THEN rounded = None
        ELSE \E i \in 1..Len(values) : IsNearestFirst(values, avg, i) /\ rounded = values[i]

\* C14: rounding x to the scale returns the numeric token whose value is nearest to x,
\* the first in declared order among equally near ones, and no result when the scale
\* has no numeric token.
C14_RoundsToNearestFirst == [][RoundingStep => ArchivedNearest]_vars

\* The same, for the scales whose numeric tokens all stand for numbers.
RoundsToNearestFirstOnNumbers ==
    [][ (RoundingStep /\ \A i \in 1..Len(get_voting_scale(RoomBefore)) :
                            get_voting_scale(RoomBefore)[i] \notin NaNTokens)
            => ArchivedNearest ]_vars

(***************************************************************************)
(* Tallies: voters and observers who vote, leave, reveal and reset         *)
(***************************************************************************)
TallyInputs ==
    [ room_names |-> {<<"S">>},
      player_names |-> <<Al, Bo>>,
      other_names |-> {},
      observers |-> BOOLEAN,
      votes |-> {"1", "2", "?"},
      stories |-> {},
      scale_names |-> {},
      ws_scale_names |-> {},
      custom_scales |-> {},
      strangers |-> FALSE,
      fill |-> FALSE,
      max_history |-> MaxArchive,
      send_failures |-> FALSE ]

NextTally ==
    \/ CreateRoom(TallyInputs)
    \/ JoinRoom(TallyInputs)
    \/ Vote(TallyInputs)
    \/ Reveal(TallyInputs)
    \/ Reset(TallyInputs)
    \/ WsConnect(TallyInputs)
    \/ WsDisconnect(TallyInputs)

SpecTally == Init /\ [][NextTally]_vars

(***************************************************************************)
(* Properties of the vote summary and the average                          *)
(***************************************************************************)
\* The positions of the non-observers of a room who hold the token, connected or not.
Holders(room, t) ==
    {i \in 1..Len(room.players) : ~room.players[i].is_observer /\ room.players[i].vote = t}

\* The tokens a non-observer of the room holds.
HeldTokens(room) ==
    {room.players[i].vote : i \in {j \in 1..Len(room.players) :
        ~room.players[j].is_observer /\ room.players[j].vote \notin {None, ""}}}

\* Twice the sum, over the tokens that stand for a number, of the token times the
\* number of its holders.
RECURSIVE HeldSum2(_, _)
HeldSum2(room, tokens) ==
    IF tokens = {} THEN 0
    ELSE LET t == CHOOSE x \in tokens : TRUE
         IN  FloatTable[t] * Cardinality(Holders(room, t)) + HeldSum2(room, tokens \ {t})

\* The number of non-observers holding a token that stands for a number.
NumericHolders(room) ==
    {i \in 1..Len(room.players) :
        ~room.players[i].is_observer /\ room.players[i].vote \in DOMAIN FloatTable}

\* C15: while the status is not revealed the vote summary is empty and the average
\* absent; while it is revealed the summary maps each held token to the number of
\* non-observers holding it, connected or not, and the average is the mean of the
\* numeric tokens among those votes, absent when none is numeric.
C15_SummaryAndAverage ==
    \A r \in DOMAIN heap :
        LET room == heap[r]
        IN  IF room.status # "revealed"
            THEN get_vote_summary(room) = <<>> /\ get_average_vote(room) = NoAvg
            ELSE /\ DOMAIN get_vote_summary(room) = HeldTokens(room)
                 /\ \A t \in HeldTokens(room) :
                        get_vote_summary(room)[t] = Cardinality(Holders(room, t))
                 /\ get_average_vote(room) =
                        IF NumericHolders(room) = {} THEN NoAvg
                        ELSE Frac(HeldSum2(room, HeldTokens(room) \cap DOMAIN FloatTable),
                                  2 * Cardinality(NumericHolders(room)))

\* A revealed room whose summary counts the "2" of a voter who left and skips the "1"
\* of an observer.
C15_Witness ==
    \E r \in DOMAIN heap :
        /\ heap[r].status = "revealed"
        /\ Len(heap[r].players) = 2
        /\ ~heap[r].players[1].is_observer
        /\ ~heap[r].players[1].connected
        /\ heap[r].players[1].vote = "2"
        /\ heap[r].players[2].is_observer
        /\ heap[r].players[2].vote = "1"
        /\ get_vote_summary(heap[r]) = ("2" :> 1)
        /\ get_average_vote(heap[r]) = <<2, 1>>

(***************************************************************************)
(* Privacy: rounds played over the channels, in both voting modes          *)
(***************************************************************************)
PrivacyInputs ==
    [ room_names |-> {<<"S">>},
      player_names |-> <<Al, Bo>>,
      other_names |-> {},
      observers |-> {FALSE},
      votes |-> {None, "1"},
      stories |-> {<<"A">>},
      scale_names |-> {},
      ws_scale_names |-> {},
      custom_scales |-> {},
      strangers |-> FALSE,
      fill |-> FALSE,
      max_history |-> MaxArchive,
      send_failures |-> FALSE ]

NextPrivacy ==
    \/ CreateRoom(PrivacyInputs)
    \/ JoinRoom(PrivacyInputs)
    \/ WsConnect(PrivacyInputs)
    \/ WsVote(PrivacyInputs)
    \/ WsReveal(PrivacyInputs)
    \/ WsReset(PrivacyInputs)
    \/ WsSetStory(PrivacyInputs)
    \/ WsToggleMode(PrivacyInputs)

SpecPrivacy == Init /\ [][NextPrivacy]_vars

(***************************************************************************)
(* Properties of the room_update message                                   *)
(***************************************************************************)
\* Tokens a participant may hold instead of the one held.
OtherTokens == {"0", "13", "?"}

\* The rooms that differ from the room only in which tokens are held: who has voted,
\* and everything else, is the same.
Variants(room) ==
    { [room EXCEPT !.players = ps] :
        ps \in { qs \in [1..Len(room.players) ->
                           {[room.players[i] EXCEPT !.vote = t] :
                               i \in 1..Len(room.players), t \in OtherTokens \cup {None}}] :
                   \A i \in 1..Len(room.players) :
                       /\ qs[i] = [room.players[i] EXCEPT !.vote = qs[i].vote]
                       /\ has_voted(qs[i]) <=> has_voted(room.players[i]) } }

\* C16: votes stay private until the reveal: a room_update built while the status is
\* voting is the one built for every room that differs only in the tokens held, and
\* it carries no vote of a participant, no vote summary, no average and no rounded
\* average.
C16_VotesPrivateUntilReveal ==
    (last.broadcast /\ last.message.data.status = "voting") =>
        /\ \A v \in Variants(heap[last.room]) : room_update(v) = last.message
        /\ \A i \in 1..Len(last.message.data.players) :
               "vote" \notin DOMAIN last.message.data.players[i]
        /\ DOMAIN last.message.data \cap {"vote_summary", "average", "rounded_average"} = {}

\* A message built while one participant holds "1" and the other has not voted.
C16_Witness ==
    /\ last.broadcast
    /\ last.op = "ws.vote"
    /\ last.message.data.status = "voting"
    /\ Len(heap[last.room].players) = 2
    /\ heap[last.room].players[1].vote = "1"
    /\ heap[last.room].players[2].vote = None
    /\ last.message.data.players[1].has_voted
    /\ ~last.message.data.players[2].has_voted
    /\ Cardinality(Variants(heap[last.room])) = 3

\* C17: a room_update built in anonymous mode associates no participant with a vote,
\* whatever the status: no entry of its participants list carries a vote and no item
\* of its history carries the votes by name.
C17_AnonymousHidesWhoVotedWhat ==
    (last.broadcast /\ last.message.data.voting_mode = "anonymous") =>
        /\ \A i \in 1..Len(last.message.data.players) :
               "vote" \notin DOMAIN last.message.data.players[i]
        /\ \A k \in 1..Len(last.message.data.history) :
               "votes" \notin DOMAIN last.message.data.history[k]

(***************************************************************************)
(* Pushes: the routes a browser uses, HTTP to join and a channel to play   *)
(***************************************************************************)
PushInputs ==
    [ room_names |-> {<<"S">>},
      player_names |-> <<Al, Bo>>,
      other_names |-> {},
      observers |-> BOOLEAN,
      votes |-> {None, "1"},
      stories |-> {<<"A">>},
      scale_names |-> {},
      ws_scale_names |-> {"fibonacci"},
      custom_scales |-> {},
      strangers |-> FALSE,
      fill |-> FALSE,
      max_history |-> MaxArchive,
      send_failures |-> FALSE ]

NextPush ==
    \/ HttpCreateRoom(PushInputs)
    \/ HttpJoinRoom(PushInputs)
    \/ WsConnect(PushInputs)
    \/ WsDisconnect(PushInputs)
    \/ WsVote(PushInputs)
    \/ WsReveal(PushInputs)
    \/ WsReset(PushInputs)
    \/ WsSetStory(PushInputs)
    \/ WsToggleMode(PushInputs)
    \/ WsChangeScale(PushInputs)

SpecPush == Init /\ [][NextPush]_vars

(***************************************************************************)
(* Properties of the push of the room state                                *)
(***************************************************************************)
\* The operations over a channel that change a room when they succeed.
ChannelMutations ==
    {"ws.connect", "ws.disconnect", "ws.vote", "ws.reveal", "ws.reset", "ws.set_story",
     "ws.toggle_voting_mode", "ws.change_scale", "ws.set_custom_scale"}

\* The step is a successful join that changed the room: a new participant, or a
\* participant found by name whose observer or connected flag changed.
JoinMutation == last'.op = "http.join" /\ last'.result = "ok" /\ heap' # heap

\* The step is a successful operation over a channel.
ChannelMutation == last'.op \in ChannelMutations /\ last'.result = "ok"

\* The participants with a channel registered in the room of the step when the step
\* has registered or unregistered the caller's.
RegisteredAtPush ==
    LET before == connections(active_connections, last'.room)
    IN  CASE last'.op = "ws.connect" -> before \cup {last'.player}
          [] last'.op = "ws.disconnect" -> before \ {last'.player}
          [] OTHER -> before

\* The step pushed the resulting room state to every registered channel.
Pushed ==
    \A p \in RegisteredAtPush :
        /\ last'.broadcast
        /\ last'.message = room_update(RoomAfter)
        /\ p \in last'.recipients

\* C18: after every successful operation that changes a room (a join, a reconnection
\* by name that changes a flag, a vote, reveal, reset, set story, toggle mode, change
\* of scale, channel connect or disconnect) a room_update with the resulting room
\* state is pushed to every participant with a registered channel in the room.
C18_EveryMutationIsPushed == [][(JoinMutation \/ ChannelMutation) => Pushed]_vars

\* The same, for the operations over a channel alone.
ChannelMutationsArePushed == [][ChannelMutation => Pushed]_vars

(***************************************************************************)
(* Delivery: broadcasts some of whose sends fail                           *)
(***************************************************************************)
DeliveryInputs ==
    [ room_names |-> {<<"S">>},
      player_names |-> <<Al, Bo>>,
      other_names |-> {},
      observers |-> {FALSE},
      votes |-> {"1"},
      stories |-> {},
      scale_names |-> {},
      ws_scale_names |-> {},
      custom_scales |-> {},
      strangers |-> FALSE,
      fill |-> FALSE,
      max_history |-> MaxArchive,
      send_failures |-> TRUE ]

NextDelivery ==
    \/ CreateRoom(DeliveryInputs)
    \/ JoinRoom(DeliveryInputs)
    \/ WsConnect(DeliveryInputs)
    \/ WsDisconnect(DeliveryInputs)
    \/ WsVote(DeliveryInputs)
    \/ WsReveal(DeliveryInputs)
    \/ WsReset(DeliveryInputs)

SpecDelivery == Init /\ [][NextDelivery]_vars

(***************************************************************************)
(* Properties of a delivery failure                                        *)
(***************************************************************************)
\* The step broadcast a room_update and some send of it failed.
FailedDelivery == last'.broadcast /\ last'.failed # {}

EarlierRounds(history, k, story_name) ==
    {j \in 1..(k - 1) : history[j].story_name = story_name}

\* The largest round number among the records at the positions.
MaxRound(history, positions) ==
    CHOOSE n \in {history[j].round_number : j \in positions} :
        \A j \in positions : history[j].round_number <= n

\* The step is a reset that archived a record.
ArchivingReset == AppliedReset /\ Len(RoomAfter.history) = Len(RoomBefore.history) + 1

\* C20: each new record gets round number 1 when no earlier record has its item name
\* and otherwise one more than the largest round number among them; hence all round
\* numbers are at least 1 and, along the history, the round numbers of the records of
\* one name run 1, 2, 3, ... without gaps or repeats.
C20_RoundNumbersCountTheRounds ==
    /\ [](\A r \in DOMAIN heap : \A k \in 1..Len(heap[r].history) :
            /\ heap[r].history[k].round_number >= 1
            /\ heap[r].history[k].round_number =
                   1 + Cardinality(EarlierRounds(heap[r].history, k,
                                                 heap[r].history[k].story_name)))
    /\ [][ ArchivingReset =>
             LET history == RoomAfter.history
                 k == Len(history)
                 earlier == EarlierRounds(history, k, history[k].story_name)
             IN  history[k].round_number =
                     IF earlier = {} THEN 1 ELSE 1 + MaxRound(history, earlier) ]_vars

\* A history with three rounds of item A, numbered 1, 2 and 3.
C20_Witness ==
    \E r \in DOMAIN heap :
        /\ Len(heap[r].history) = 3
        /\ \A k \in 1..3 : heap[r].history[k].story_name = <<"A">>
        /\ \A k \in 1..3 : heap[r].history[k].round_number = k

(***************************************************************************)
(* History: rounds archived, re-voted and followed by changes of scale     *)
(***************************************************************************)
HistoryInputs ==
    [ room_names |-> {<<"S">>},
      player_names |-> <<Al>>,
      other_names |-> {},
      observers |-> {FALSE},
      votes |-> {"1", "5"},
      stories |-> {<<"A">>, <<"B">>},
      scale_names |-> {"t_shirt"},
      ws_scale_names |-> {},
      custom_scales |-> {},
      strangers |-> FALSE,
      fill |-> FALSE,
      max_history |-> MaxHistory,
      send_failures |-> FALSE ]

NextHistory ==
    \/ CreateRoom(HistoryInputs)
    \/ JoinRoom(HistoryInputs)
    \/ Vote(HistoryInputs)
    \/ Reveal(HistoryInputs)
    \/ SetStory(HistoryInputs)
    \/ ChangeScale(HistoryInputs)
    \/ Reset(HistoryInputs)

SpecHistory == Init /\ [][NextHistory]_vars

(***************************************************************************)
(* Properties of the history                                               *)
(***************************************************************************)
\* The record is the earlier one, but for a flag that went from false to true.
FrozenRecord(before, after) ==
    /\ [after EXCEPT !.is_superseded = before.is_superseded] = before
    /\ before.is_superseded => after.is_superseded

\* C21: the history is append-only and its records are frozen: no step removes or
\* reorders a record, and a record's item name, votes by name, tally, average, rounded
\* average and round number never change; its superseded flag only goes from false to
\* true.
C21_HistoryIsAppendOnly ==
    [][ \A r \in DOMAIN heap :
            /\ r \in DOMAIN heap'
            /\ Len(heap'[r].history) >= Len(heap[r].history)
            /\ \A k \in 1..Len(heap[r].history) :
                   FrozenRecord(heap[r].history[k], heap'[r].history[k]) ]_vars

\* Two rounds of item A are archived, the first superseded and still holding Al's
\* "1", after the votes were cleared and the scale changed to t_shirt.
C21_Witness ==
    \E r \in DOMAIN heap :
        /\ last.op = "uc.change_scale"
        /\ last.result = "ok"
        /\ heap[r].voting_scale = "t_shirt"
        /\ Len(heap[r].history) = 2
        /\ heap[r].history[1].is_superseded
        /\ heap[r].history[1].votes = (Al :> "1")
        /\ heap[r].history[1].rounded_average = "1"
        /\ heap[r].history[2].votes = (Al :> "5")
        /\ \A i \in 1..Len(heap[r].players) : heap[r].players[i].vote = None

(***************************************************************************)
(* Custom scales: lists with blanks, with one value and with none          *)
(***************************************************************************)
CustomInputs ==
    [ room_names |-> {<<"S">>},
      player_names |-> <<Al, Bo>>,
      other_names |-> {},
      observers |-> {FALSE},
      votes |-> {},
      stories |-> {},
      scale_names |-> {"t_shirt"},
      ws_scale_names |-> {"bogus"},
      custom_scales |-> {<<" 1 ", "  ", " 3">>, <<" 3", " 1 ">>, <<" 1 ", "  ">>, <<"  ", "">>, <<>>},
      strangers |-> FALSE,
      fill |-> FALSE,
      max_history |-> MaxArchive,
      send_failures |-> FALSE ]

NextCustom ==
    \/ CreateRoom(CustomInputs)
    \/ JoinRoom(CustomInputs)
    \/ ChangeScale(CustomInputs)
    \/ SetCustomScale(CustomInputs)
    \/ WsConnect(CustomInputs)
    \/ WsChangeScale(CustomInputs)
    \/ WsSetCustomScale(CustomInputs)

SpecCustom == Init /\ [][NextCustom]_vars

(***************************************************************************)
(* Properties of the custom scale                                          *)
(***************************************************************************)
\* The step is a Set Custom Scale by the facilitator of its room.
CustomStep ==
    /\ last'.op \in {"uc.set_custom_scale", "ws.set_custom_scale"}
    /\ last'.result \notin {"RoomNotFound", "PlayerNotFound", "Unauthorized"}

\* The values trimmed, the blank ones dropped, in their given order.
NonBlank(values) ==
    SelectSeq([i \in 1..Len(values) |-> TokStrip(values[i])], LAMBDA v : v # "")

\* C22: the current scale of a room has at least 2 values in every reachable state; a
\* Set Custom Scale whose input has fewer than 2 non-blank values after trimming fails
\* with Invalid Scale and leaves the scale as it was; on success the scale name is
\* "custom" and the current scale values are the trimmed non-blank inputs in their
\* given order.
C22_CustomScaleHasTwoValues ==
    /\ [](\A r \in DOMAIN heap : Len(get_current_scale(heap[r])) >= 2)
    /\ [][ CustomStep =>
             IF Len(NonBlank(last'.values)) < 2
             THEN /\ last'.result = "InvalidScale"
                  /\ RoomAfter.voting_scale = RoomBefore.voting_scale
                  /\ RoomAfter.custom_scale = RoomBefore.custom_scale
                  /\ get_current_scale(RoomAfter) = get_current_scale(RoomBefore)
             ELSE /\ last'.result = "ok"
                  /\ RoomAfter.voting_scale = "custom"
                  /\ get_current_scale(RoomAfter) = NonBlank(last'.values) ]_vars

\* After the custom scale " 3", " 1 " was set (the scale is 3, 1), a list with one
\* non-blank value is refused and the scale is still 3, 1.
C22_Witness ==
    /\ last.op = "uc.set_custom_scale"
    /\ last.values = <<" 1 ", "  ">>
    /\ last.result = "InvalidScale"
    /\ heap[last.room].voting_scale = "custom"
    /\ get_current_scale(heap[last.room]) = <<"3", "1">>

(***************************************************************************)
(* Properties of the opening and the closing of a channel                  *)
(***************************************************************************)
\* The step opened a channel of a participant of the room.
ChannelOpened == last'.op = "ws.connect" /\ last'.result = "ok"

\* The step closed a channel.
ChannelClosed == last'.op = "ws.disconnect" /\ last'.result = "ok"

OpenForUnknown ==
    /\ last'.op = "ws.connect"
    /\ \/ ~exists(last'.room)
       \/ last'.player \notin Participants(last'.room)

\* C24: opening a channel for a room id that is not in the directory, or for a
\* participant id that is not in that room, is refused: no channel is registered, no
\* participant's connected flag changes and no broadcast is sent.
C24_UnknownChannelRefused ==
    [][ OpenForUnknown =>
            /\ last'.result \in {"RoomNotFound", "PlayerNotFound"}
            /\ active_connections' = active_connections
            /\ ws_open' = ws_open
            /\ heap' = heap
            /\ ~last'.broadcast
            /\ last'.recipients = {} ]_vars

\* A channel for the id 0 was refused in a room whose participant Al holds a
\* registered channel.
C24_Witness ==
    /\ last.op = "ws.connect"
    /\ last.result = "PlayerNotFound"
    /\ last.player = 0
    /\ exists(last.room)
    /\ connections(active_connections, last.room) = {1}
    /\ heap[last.room].players[1].connected

(***************************************************************************)
(* Properties of reveal and of the voting mode                             *)
(***************************************************************************)
\* The step is a reveal that was let through.
RevealStep == last'.op \in {"uc.reveal", "ws.reveal"} /\ last'.result = "ok"

\* C25: reveal sets the status to revealed and is idempotent: on a room already
\* revealed it leaves the whole room unchanged; and it never changes a vote, the item
\* name, the history, the scale or the voting mode.
C25_RevealIsIdempotent ==
    /\ [](\A r \in DOMAIN heap :
            /\ reveal_votes(heap[r]).status = "revealed"
            /\ reveal_votes(reveal_votes(heap[r])) = reveal_votes(heap[r]))
    /\ [][ RevealStep =>
             /\ RoomAfter.status = "revealed"
             /\ RoomAfter = [RoomBefore EXCEPT !.status = "revealed"]
             /\ RoomBefore.status = "revealed" => RoomAfter = RoomBefore ]_vars

\* A reveal over a channel in a room in anonymous mode with the custom scale 1, 3, a
\* named item and a vote held: all of them are as they were.
C25_Witness ==
    /\ last.op = "ws.reveal"
    /\ last.result = "ok"
    /\ heap[last.room].status = "revealed"
    /\ heap[last.room].voting_mode = "anonymous"
    /\ heap[last.room].custom_scale = <<"1", "3">>
    /\ heap[last.room].story_name = <<"A">>
    /\ heap[last.room].players[1].vote = "1"

\* The step is a toggle of the voting mode that was let through.
ToggleStep ==
    /\ last'.op \in {"uc.toggle_voting_mode", "ws.toggle_voting_mode"}
    /\ last'.result = "ok"

\* The other voting mode.
OtherMode(mode) == IF mode = "public" THEN "anonymous" ELSE "public"

\* C26: a toggle flips the voting mode between public and anonymous and returns the
\* new mode; it leaves the status, the votes, the item name, the scale and the history
\* unchanged; and two consecutive toggles restore the mode.
C26_ToggleFlipsTheMode ==
    /\ [](\A r \in DOMAIN heap :
            /\ heap[r].voting_mode \in {"public", "anonymous"}
            /\ toggle_voting_mode(toggle_voting_mode(heap[r])) = heap[r])
    /\ [][ ToggleStep =>
             /\ RoomAfter = [RoomBefore EXCEPT !.voting_mode = OtherMode(@)]
             /\ RoomAfter.voting_mode # RoomBefore.voting_mode
             /\ last'.op = "uc.toggle_voting_mode" => last'.mode = RoomAfter.voting_mode ]_vars

\* A toggle through the use case returned "public" in a revealed room that holds a
\* vote, a named item and a record: the second toggle of the room restored the mode.
C26_Witness ==
    /\ last.op = "uc.toggle_voting_mode"
    /\ last.result = "ok"
    /\ last.mode = "public"
    /\ heap[last.room].voting_mode = "public"
    /\ heap[last.room].status = "revealed"
    /\ heap[last.room].story_name = <<"A">>
    /\ heap[last.room].players[1].vote = "1"
    /\ Len(heap[last.room].history) = 1

(***************************************************************************)
(* Story names: short, of 200 characters between blanks, and of 201        *)
(***************************************************************************)
StoryInputs ==
    [ room_names |-> {<<"S">>},
      player_names |-> <<Al, Bo>>,
      other_names |-> {},
      observers |-> BOOLEAN,
      votes |-> {"1"},
      stories |-> {<<" ", "B">>, <<" ">> \o Fill(200) \o <<" ">>, Fill(201)},
      scale_names |-> {},
      ws_scale_names |-> {},
      custom_scales |-> {},
      strangers |-> FALSE,
      fill |-> FALSE,
      max_history |-> MaxArchive,
      send_failures |-> FALSE ]

NextStory ==
    \/ CreateRoom(StoryInputs)
    \/ JoinRoom(StoryInputs)
    \/ Vote(StoryInputs)
    \/ Reveal(StoryInputs)
    \/ SetStory(StoryInputs)
    \/ WsConnect(StoryInputs)
    \/ WsSetStory(StoryInputs)

SpecStory == Init /\ [][NextStory]_vars

(***************************************************************************)
(* Properties of Set Story Name                                            *)
(***************************************************************************)
\* The step is a Set Story Name on a room of the directory.
StoryStep ==
    /\ last'.op \in {"uc.set_story", "ws.set_story"}
    /\ exists(last'.room)

\* C27: Set Story Name on an existing room stores the trimmed name as the item name
\* whenever its trimmed length is at most 200, whatever the caller's facilitator or
\* observer role, and changes nothing else; a name longer than 200 characters after
\* trimming fails with Invalid Story Name and leaves the item name unchanged.
C27_SetStoryName ==
    [][ StoryStep =>
            IF Len(Strip(last'.name)) <= 200
            THEN /\ last'.result = "ok"
                 /\ RoomAfter = [RoomBefore EXCEPT !.story_name = Strip(last'.name)]
            ELSE /\ last'.result = "InvalidStoryName"
                 /\ RoomAfter = RoomBefore ]_vars

\* Bo, an observer who is not the facilitator, set over a channel a name of 200
\* characters between two blanks: the item name is the 200 characters.
C27_Witness ==
    /\ last.op = "ws.set_story"
    /\ last.player = 2
    /\ last.result = "ok"
    /\ Len(last.name) = 202
    /\ heap[last.room].players[2].is_observer
    /\ ~heap[last.room].players[2].is_facilitator
    /\ heap[last.room].story_name = Fill(200)
    /\ heap[last.room].players[1].vote = "1"

(***************************************************************************)
(* Directory: two rooms created, joined, voted in and deleted              *)
(***************************************************************************)
DirectoryInputs ==
    [ room_ids |-> {"r1", "r2"},
      room_names |-> {<<"S">>},
      player_names |-> {Al},
      votes |-> {"1"} ]

DirCreateRoom ==
    \E n \in DirectoryInputs.room_names, id \in DirectoryInputs.room_ids :
        CreateRoomUseCase_execute(n, id) /\ UNCHANGED event_loop

DirJoinRoom ==
    \E r \in DirectoryInputs.room_ids, n \in DirectoryInputs.player_names :
        JoinRoomUseCase_execute(r, n, FALSE) /\ UNCHANGED event_loop

DirVote ==
    \E r \in DirectoryInputs.room_ids, v \in DirectoryInputs.votes :
        \E p \in Participants(r) : VoteUseCase_execute(r, p, v) /\ UNCHANGED event_loop

DirDeleteRoom == \E r \in DirectoryInputs.room_ids : DeleteRoomUseCase_execute(r) /\ UNCHANGED event_loop

DirHttpDeleteRoom == \E r \in DirectoryInputs.room_ids : delete_room(r) /\ UNCHANGED event_loop

NextDirectory ==
    \/ DirCreateRoom
    \/ DirJoinRoom
    \/ DirVote
    \/ DirDeleteRoom
    \/ DirHttpDeleteRoom

SpecDirectory == Init /\ [][NextDirectory]_vars

(***************************************************************************)
(* Properties of the room directory                                        *)
(***************************************************************************)
\* The step is a deletion of a room.
DeleteStep == last'.op \in {"uc.delete_room", "http.delete_room"}

\* C28: after a room is deleted a get of its id reports not-found, now and later, and
\* the list no longer contains it, while every other room stays stored and unchanged;
\* deleting an id that is not in the directory fails with Room Not Found and changes
\* nothing.
C28_DeleteRemovesOneRoom ==
    /\ [][ DeleteStep =>
             IF last'.room \in list_all(repo)
             THEN /\ last'.result = "ok"
                  /\ get_by_id(repo', last'.room) = None
                  /\ last'.room \notin list_all(repo')
                  /\ \A other \in list_all(repo) \ {last'.room} :
                         /\ get_by_id(repo', other) = other
                         /\ other \in list_all(repo')
                         /\ heap'[other] = heap[other]
             ELSE /\ last'.result = "RoomNotFound"
                  /\ repo' = repo
                  /\ heap' = heap ]_vars
    /\ [][ \A r \in DOMAIN heap :
             get_by_id(repo, r) = None => get_by_id(repo', r) = None ]_vars

\* The room r1 was deleted while the room r2, in which Al holds the vote "1", stays
\* in the directory.
C28_Witness ==
    /\ last.op = "uc.delete_room"
    /\ last.result = "ok"
    /\ last.room = "r1"
    /\ get_by_id(repo, "r1") = None
    /\ list_all(repo) = {"r2"}
    /\ "r1" \in DOMAIN heap
    /\ Len(heap["r2"].players) = 1
    /\ heap["r2"].players[1].vote = "1"


(***************************************************************************)
(* Await points.  A handler is a coroutine: it runs without interruption   *)
(* up to an await that really suspends.  From the mutation of a handler to *)
(* the message built by broadcast_room_state nothing suspends; the first   *)
(* suspension is at `await connection.send_json(message)` inside the loop  *)
(* of ConnectionManager.broadcast, once per channel.  The operations above *)
(* run a broadcast to its end in one step; here a broadcast is a task that *)
(* takes one step per channel, and the tasks of different handlers         *)
(* interleave.  Sends do not fail here and channels are only opened.       *)
(***************************************************************************)
tasks == event_loop.tasks

inbox == event_loop.inbox

\* list(active_connections[room_id]): the keys in the order they were inserted
keys(order, room_id) == IF room_id \in DOMAIN order THEN order[room_id] ELSE <<>>

\* active_connections[room_id][player_id] = websocket: a new key goes last, a key
\* that is there keeps its place
insert_key(order, room_id, player_id) ==
    IF player_id \in Range(keys(order, room_id)) THEN order
    ELSE (room_id :> Append(keys(order, room_id), player_id)) @@ order

\* The messages written to the channel of a participant, oldest first.
received(room_id, player_id) ==
    IF <<room_id, player_id>> \in DOMAIN inbox THEN inbox[<<room_id, player_id>>] ELSE <<>>

\* ws_manager.broadcast(room_id, message) up to its first await: the iterator over
\* the room's connection dict is created (it remembers the dict's size) and the
\* handler is suspended with the message it built.
create_task(loop, room_id, player_id, message) ==
    IF keys(loop.order, room_id) = <<>> THEN loop
    ELSE [loop EXCEPT !.tasks = ((loop.started + 1) :>
                                    [ room |-> room_id,
                                      player |-> player_id,
                                      message |-> message,
                                      todo |-> keys(loop.order, room_id),
                                      size |-> Len(keys(loop.order, room_id)) ]) @@ @,
                      !.started = @ + 1]

\* Faulty variant: the message is built when the send is resumed.
sent_message_late(task, room) == room_update(room)

\* connection.send_json(message): the message the handler built before it suspended
sent_message(task, room) == task.message

\* A channel opens: websocket_endpoint up to the first await of its broadcast.
AsyncConnect(cfg) ==
    \E r \in RoomIds : \E p \in Callers(cfg, r) :
        /\ OpsBound(r)
        /\ handlers(r, p) < MaxHandlers
        /\ event_loop.started < MaxBroadcasts
        /\ websocket_endpoint(r, p, {})
        /\ event_loop' =
              IF last'.broadcast
              THEN create_task([event_loop EXCEPT !.order = insert_key(@, r, p)], r, p,
                               last'.message)
              ELSE event_loop

\* The handlers of a participant that are suspended in a broadcast.
suspended(room_id, player_id) ==
    {seq \in DOMAIN tasks : tasks[seq].room = room_id /\ tasks[seq].player = player_id}

\* A vote over a channel: _handle_vote up to the first await of its broadcast.  A
\* handler reads its next message only when its broadcast has returned.
AsyncVote(cfg) ==
    \E r \in RoomIds : \E p \in Callers(cfg, r), v \in cfg.votes :
        /\ OpsBound(r)
        /\ Cardinality(suspended(r, p)) < handlers(r, p)
        /\ event_loop.started < MaxBroadcasts
        /\ handle_vote(r, p, v, {})
        /\ event_loop' = IF last'.broadcast
                         THEN create_task(event_loop, r, p, last'.message)
                         ELSE event_loop

\* One turn of the loop of ConnectionManager.broadcast in a suspended handler: the
\* dict iterator raises RuntimeError when the dict changed size since the loop began
\* (nothing catches it: the handler ends, its channel stays registered); at the end
\* of the dict the broadcast returns; otherwise the message is written to the next
\* channel and the handler is suspended again.
AsyncSend ==
    \E seq \in DOMAIN tasks :
        LET task == tasks[seq]
            room_id == task.room
            rest == [k \in DOMAIN tasks \ {seq} |-> tasks[k]]
            to == <<room_id, Head(task.todo)>>
        IN
        IF Len(keys(event_loop.order, room_id)) # task.size
        THEN /\ event_loop' = [event_loop EXCEPT !.tasks = rest]
             /\ SetHandlers(room_id, task.player, handlers(room_id, task.player) - 1)
             /\ UNCHANGED <<repo, heap, active_connections, last>>
        ELSE IF task.todo = <<>>
        THEN /\ event_loop' = [event_loop EXCEPT !.tasks = rest]
             /\ UNCHANGED <<repo, heap, active_connections, ws_open, last>>
        ELSE /\ event_loop' =
                  [event_loop EXCEPT
                      !.tasks[seq].todo = Tail(@),
                      !.inbox = (to :> Append(received(to[1], to[2]),
                                              [ seq |-> seq,
                                                message |-> sent_message(task, heap[room_id]) ]))
                                @@ @]
             /\ UNCHANGED <<repo, heap, active_connections, ws_open, last>>

AsyncInputs ==
    [ room_names |-> {<<"S">>},
      player_names |-> <<Al, Bo>>,
      other_names |-> {},
      observers |-> {FALSE},
      votes |-> {"1"},
      stories |-> {},
      scale_names |-> {},
      ws_scale_names |-> {},
      custom_scales |-> {},
      strangers |-> FALSE,
      fill |-> FALSE,
      max_history |-> MaxArchive,
      send_failures |-> FALSE ]

NextAsync ==
    \/ CreateRoom(AsyncInputs)
    \/ JoinRoom(AsyncInputs)
    \/ AsyncConnect(AsyncInputs)
    \/ AsyncVote(AsyncInputs)
    \/ AsyncSend

SpecAsync == Init /\ [][NextAsync]_vars

\* A broadcast starts in this step.
BroadcastStarts == event_loop'.started = event_loop.started + 1

\* C29: the content of every room_update is the room state right after the
\* operation that triggered it.  The task a step starts carries room_update of the
\* room as that step leaves it; a suspended task keeps its message; a message written
\* to a channel is the message of a task that was suspended, under its number, and
\* what a channel received stays as it was.
C29_SnapshotIsTakenWithTheMutation ==
    [][ /\ \A seq \in DOMAIN tasks' :
              IF seq \in DOMAIN tasks
              THEN tasks'[seq].message = tasks[seq].message
              ELSE /\ BroadcastStarts
                   /\ seq = event_loop'.started
                   /\ tasks'[seq].message = room_update(heap'[tasks'[seq].room])
        /\ BroadcastStarts => event_loop'.started \in DOMAIN tasks'
        /\ \A key \in DOMAIN inbox' :
              \/ key \in DOMAIN inbox /\ inbox'[key] = inbox[key]
              \/ \E seq \in DOMAIN tasks :
                    /\ tasks[seq].room = key[1]
                    /\ inbox'[key] = Append(received(key[1], key[2]),
                                            [ seq |-> seq,
                                              message |-> tasks[seq].message ]) ]_vars

\* A channel was written the message of an operation after the message of a later
\* operation: written when the room had changed, it is still the message built
\* with its own operation, not the later one.
C29_Witness ==
    \E r \in RoomIds : \E p \in Participants(r) :
        \E i, j \in DOMAIN received(r, p) :
            /\ i < j
            /\ received(r, p)[i].seq > received(r, p)[j].seq
            /\ received(r, p)[i].message # received(r, p)[j].message

\* No broadcast is suspended and the last message a registered channel received is
\* not the room's state, which an earlier message of a later operation did carry.
StaleLastMessage ==
    /\ tasks = <<>>
    /\ \E r \in RoomIds : \E p \in connections(active_connections, r) :
          LET got == received(r, p) IN
          /\ got # <<>>
          /\ got[Len(got)].message # room_update(heap[r])
          /\ \E i \in DOMAIN got :
                /\ got[i].seq > got[Len(got)].seq
                /\ got[i].message = room_update(heap[r])
                /\ got[i].message.data.players[1].has_voted

\* C30: every channel is written the room_update messages in the order in which
\* their operations changed the room, also when broadcasts overlap: the numbers of
\* the messages a channel received increase; so when no broadcast is suspended, the
\* last message a channel received is the newest one it was written.
C30_MessagesArriveInTheOrderOfTheMutations ==
    \A r \in RoomIds : \A p \in Participants(r) :
        LET got == received(r, p) IN
        /\ \A i, j \in DOMAIN got : i < j => got[i].seq < got[j].seq
        /\ (tasks = <<>> /\ got # <<>>) =>
              \A i \in DOMAIN got : got[i].seq <= got[Len(got)].seq


(***************************************************************************)
(* Two channels of one participant.  The connection dict has one entry per *)
(* player id: a second websocket_endpoint call of the same participant     *)
(* overwrites the entry, and the disconnect branch of either call pops it. *)
(***************************************************************************)
\* A participant opens a channel while holding up to MaxHandlers open ones.
WsConnectAgain(cfg) ==
    \E r \in RoomIds : \E p \in Callers(cfg, r) :
        /\ OpsBound(r)
        /\ handlers(r, p) <= MaxHandlers
        /\ websocket_endpoint(r, p, {})
        /\ UNCHANGED event_loop

ChannelsInputs ==
    [ room_names |-> {<<"S">>},
      player_names |-> <<Al, Bo>>,
      other_names |-> {},
      observers |-> {FALSE},
      votes |-> {None, "1"},
      stories |-> {},
      scale_names |-> {},
      ws_scale_names |-> {},
      custom_scales |-> {},
      strangers |-> FALSE,
      fill |-> FALSE,
      max_history |-> MaxArchive,
      send_failures |-> FALSE ]

NextChannels ==
    \/ CreateRoom(ChannelsInputs)
    \/ JoinRoom(ChannelsInputs)
    \/ WsConnectAgain(ChannelsInputs)
    \/ WsDisconnect(ChannelsInputs)
    \/ WsVote(ChannelsInputs)

SpecChannels == Init /\ [][NextChannels]_vars

\* C31: a participant that has an open channel is marked connected and has a
\* registered channel, also after the first of its two channels has closed.
C31_OpenChannelStaysRegistered ==
    \A r \in DOMAIN heap : \A p \in Participants(r) :
        handlers(r, p) > 0 =>
            /\ heap[r].players[p].connected
            /\ p \in connections(active_connections, r)


(***************************************************************************)
(* The record a reset archives, against the summary and the average of the *)
(* revealed round                                                          *)
(***************************************************************************)
ArchiveInputs ==
    [ room_names |-> {<<"S">>},
      player_names |-> <<Al, Bo>>,
      other_names |-> {},
      observers |-> BOOLEAN,
      votes |-> {"2", "?"},
      stories |-> {<<"A">>},
      scale_names |-> {},
      ws_scale_names |-> {},
      custom_scales |-> {<<"3", "1">>},
      strangers |-> FALSE,
      fill |-> FALSE,
      max_history |-> MaxArchive,
      send_failures |-> FALSE ]

NextArchive ==
    \/ CreateRoom(ArchiveInputs)
    \/ JoinRoom(ArchiveInputs)
    \/ Vote(ArchiveInputs)
    \/ Reveal(ArchiveInputs)
    \/ SetStory(ArchiveInputs)
    \/ SetCustomScale(ArchiveInputs)
    \/ Reset(ArchiveInputs)

SpecArchive == Init /\ [][NextArchive]_vars

\* The record the step appended.
NewRecord == RoomAfter.history[Len(RoomAfter.history)]

\* The positions of the non-observer participants that hold a non-empty vote.
Voters(room) ==
    {i \in 1..Len(room.players) :
        ~room.players[i].is_observer /\ room.players[i].vote \notin {None, ""}}

\* C32: the record a reset archives in a revealed room has the tally and the average
\* that get_vote_summary and get_average_vote gave right before the reset, the votes
\* of exactly the non-observer participants with a non-empty vote under their names,
\* and as rounded average the average rounded on the scale current at the reset, or
\* none when there is no average; and a reset of a revealed room with an item name
\* and such a vote does archive.
C32_RecordEqualsTheRevealedRound ==
    [][ (AppliedReset /\ RoomBefore.status = "revealed") =>
          /\ ArchivingReset <=> (RoomBefore.story_name # <<>> /\ Voters(RoomBefore) # {})
          /\ ArchivingReset =>
                /\ NewRecord.story_name = RoomBefore.story_name
                /\ NewRecord.vote_summary = get_vote_summary(RoomBefore)
                /\ NewRecord.average = get_average_vote(RoomBefore)
                /\ DOMAIN NewRecord.votes =
                      {RoomBefore.players[i].name : i \in Voters(RoomBefore)}
                /\ \A i \in Voters(RoomBefore) :
                      NewRecord.votes[RoomBefore.players[i].name] = RoomBefore.players[i].vote
                /\ NewRecord.rounded_average =
                      IF get_average_vote(RoomBefore) = NoAvg THEN None
                      ELSE VotingScale_round_to_scale(get_current_scale(RoomBefore),
                                                      get_average_vote(RoomBefore)) ]_vars

\* A revealed round of item A was archived under the custom scale 3, 1, set after the
\* votes: Al voted 2 and Bo voted ?; the average 2 is rounded to 3, the first of the
\* two nearest values.
C32_Witness ==
    \E r \in DOMAIN heap :
        /\ Len(heap[r].history) = 1
        /\ heap[r].custom_scale = <<"3", "1">>
        /\ heap[r].history[1].vote_summary = ("2" :> 1) @@ ("?" :> 1)
        /\ heap[r].history[1].average = <<2, 1>>
        /\ heap[r].history[1].rounded_average = "3"
        /\ last.op = "uc.reset" /\ last.result = "ok"


(***************************************************************************)
(* The records of the history                                              *)
(***************************************************************************)
RecordsInputs ==
    [ room_names |-> {<<"S">>},
      player_names |-> <<Al, Bo>>,
      other_names |-> {<<" ", "A", "L", " ">>},
      observers |-> BOOLEAN,
      votes |-> {"1", "?"},
      stories |-> {<<"A">>, <<" ">>},
      scale_names |-> {},
      ws_scale_names |-> {},
      custom_scales |-> {},
      strangers |-> FALSE,
      fill |-> FALSE,
      max_history |-> MaxArchive,
      send_failures |-> FALSE ]

NextRecords ==
    \/ CreateRoom(RecordsInputs)
    \/ JoinRoom(RecordsInputs)
    \/ HttpJoinRoom(RecordsInputs)
    \/ Vote(RecordsInputs)
    \/ SetStory(RecordsInputs)
    \/ Reset(RecordsInputs)

SpecRecords == Init /\ [][NextRecords]_vars

\* The sum of the counts of a tally.
RECURSIVE TallyTotal(_)
TallyTotal(summary) ==
    IF DOMAIN summary = {} THEN 0
    ELSE LET t == CHOOSE t \in DOMAIN summary : TRUE
         IN  summary[t] + TallyTotal([u \in DOMAIN summary \ {t} |-> summary[u]])

\* C33: every record of a history has a non-empty item name and at least one entry
\* in its votes, and the counts of its tally sum to the number of entries in its
\* votes.
C33_RecordsAreWellFormed ==
    \A r \in DOMAIN heap : \A k \in 1..Len(heap[r].history) :
        LET record == heap[r].history[k] IN
        /\ record.story_name # <<>>
        /\ DOMAIN record.votes # {}
        /\ TallyTotal(record.vote_summary) = Cardinality(DOMAIN record.votes)

\* A record of item A with the votes of two participants on the same token, after a
\* join under the first participant's name in other letters.
C33_Witness ==
    \E r \in DOMAIN heap :
        /\ Len(heap[r].history) >= 1
        /\ heap[r].history[1].story_name = <<"A">>
        /\ heap[r].history[1].vote_summary = ("1" :> 2)
        /\ Cardinality(DOMAIN heap[r].history[1].votes) = 2
        /\ last.name = <<" ", "A", "L", " ">> /\ last.result = "ok"


(***************************************************************************)
(* What changes the status                                                 *)
(***************************************************************************)
StatusInputs ==
    [ room_names |-> {<<"S">>},
      player_names |-> <<Al>>,
      other_names |-> {},
      observers |-> {FALSE},
      votes |-> {"1"},
      stories |-> {<<"A">>},
      scale_names |-> {"fibonacci"},
      ws_scale_names |-> {},
      custom_scales |-> {<<"1", "3">>},
      strangers |-> FALSE,
      fill |-> FALSE,
      max_history |-> MaxArchive,
      send_failures |-> FALSE ]

NextStatus ==
    \/ CreateRoom(StatusInputs)
    \/ JoinRoom(StatusInputs)
    \/ HttpJoinRoom(StatusInputs)
    \/ Vote(StatusInputs)
    \/ Reveal(StatusInputs)
    \/ Reset(StatusInputs)
    \/ SetStory(StatusInputs)
    \/ ToggleMode(StatusInputs)
    \/ ChangeScale(StatusInputs)
    \/ SetCustomScale(StatusInputs)
    \/ WsConnect(StatusInputs)
    \/ WsDisconnect(StatusInputs)
    \/ WsVote(StatusInputs)
    \/ WsSetStory(StatusInputs)

SpecStatus == Init /\ [][NextStatus]_vars

\* C34: the status of a room changes only by a reveal, to revealed, and by a reset,
\* to voting, and its history only by a reset: every other operation leaves both as
\* they were; a vote cast in a revealed room is accepted and the room stays revealed.
C34_OnlyRevealAndResetChangeTheStatus ==
    [][ /\ \A r \in DOMAIN heap :
              /\ r \in DOMAIN heap'
              /\ heap'[r].status # heap[r].status =>
                    /\ last'.room = r /\ last'.result = "ok"
                    /\ \/ last'.op \in {"uc.reveal", "ws.reveal"} /\ heap'[r].status = "revealed"
                       \/ last'.op \in {"uc.reset", "ws.reset"} /\ heap'[r].status = "voting"
              /\ heap'[r].history # heap[r].history =>
                    last'.room = r /\ last'.result = "ok" /\ last'.op \in {"uc.reset", "ws.reset"}
        /\ (last'.op \in {"uc.vote", "ws.vote"} /\ RoomBefore.status = "revealed") =>
              /\ last'.result = "ok"
              /\ RoomAfter.status = "revealed"
              /\ RoomAfter.players[last'.player].vote = last'.vote ]_vars

\* A vote was cast over a channel in a revealed room that had none: it is held and
\* the room is still revealed.
C34_Witness ==
    /\ last.op = "ws.vote" /\ last.result = "ok"
    /\ heap[last.room].status = "revealed"
    /\ heap[last.room].players[1].vote = "1"
    /\ heap[last.room].story_name = <<"A">>
    /\ heap[last.room].custom_scale = <<"1", "3">>


\* C35: no two participants of a room have names that are equal ignoring case, so a
\* search by name has at most one match, whatever the order of the joins and of the
\* operations between them.
C35_NamesAreUniqueIgnoringCase ==
    \A r \in DOMAIN heap : \A i, j \in 1..Len(heap[r].players) :
        i # j => ~SameName(heap[r].players[i].name, heap[r].players[j].name)

\* The HTTP route was asked to join " AL " while Al's channel is open and Al holds a
\* vote: it returned Al's id and the room still has Al and Bo.
C35_Witness ==
    /\ last.op = "http.join" /\ last.result = "ok"
    /\ last.name = <<" ", "A", "L", " ">> /\ last.ret = 1
    /\ handlers(last.room, 1) > 0
    /\ LET room == heap[last.room] IN
       /\ Len(room.players) = 2
       /\ room.players[1].name = Al /\ room.players[2].name = Bo
       /\ room.players[1].vote = "1"


(***************************************************************************)
(* The participants of a room                                              *)
(***************************************************************************)
RosterInputs ==
    [ room_names |-> {<<"S">>},
      player_names |-> <<Al, Bo>>,
      other_names |-> {},
      observers |-> {FALSE},
      votes |-> {"1"},
      stories |-> {<<" ">>},
      scale_names |-> {"fibonacci"},
      ws_scale_names |-> {},
      custom_scales |-> {},
      strangers |-> FALSE,
      fill |-> FALSE,
      max_history |-> MaxArchive,
      send_failures |-> FALSE ]

NextRoster ==
    \/ CreateRoom(RosterInputs)
    \/ JoinRoom(RosterInputs)
    \/ HttpJoinRoom(RosterInputs)
    \/ Vote(RosterInputs)
    \/ Reveal(RosterInputs)
    \/ Reset(RosterInputs)
    \/ SetStory(RosterInputs)
    \/ ToggleMode(RosterInputs)
    \/ ChangeScale(RosterInputs)
    \/ WsConnect(RosterInputs)
    \/ WsDisconnect(RosterInputs)

SpecRoster == Init /\ [][NextRoster]_vars

\* C36: no operation on an existing room removes a participant: after every step
\* the room has every participant it had, each under the same id and the same name.
C36_ParticipantsAreNeverRemoved ==
    [][ \A r \in DOMAIN heap :
            /\ r \in DOMAIN heap'
            /\ Len(heap'[r].players) >= Len(heap[r].players)
            /\ \A i \in 1..Len(heap[r].players) :
                  /\ heap'[r].players[i].id = heap[r].players[i].id
                  /\ heap'[r].players[i].name = heap[r].players[i].name ]_vars

\* The votes of a revealed room were reset after Bo's channel had closed: Al and Bo
\* are both still in the room, Bo not connected.
C36_Witness ==
    /\ last.op = "uc.reset" /\ last.result = "ok"
    /\ LET room == heap[last.room] IN
       /\ Len(room.players) = 2
       /\ room.players[1].name = Al /\ room.players[1].id = 1
       /\ room.players[2].name = Bo /\ room.players[2].id = 2
       /\ ~room.players[2].connected
       /\ room.voting_mode = "anonymous"


\* The values the room's scale fields stand for: the custom values when there are
\* any, else those of the predefined scale of the stored name, else those of
\* modified_fibonacci.
ScaleValues(room) ==
    IF Len(room.custom_scale) > 0 THEN room.custom_scale
    ELSE IF room.voting_scale = "fibonacci" THEN PREDEFINED_SCALES.fibonacci
    ELSE IF room.voting_scale = "powers_of_2" THEN PREDEFINED_SCALES.powers_of_2
    ELSE IF room.voting_scale = "t_shirt" THEN PREDEFINED_SCALES.t_shirt
    ELSE IF room.voting_scale = "linear" THEN PREDEFINED_SCALES.linear
    ELSE PREDEFINED_SCALES.modified_fibonacci

\* The step is a Change Scale that the room's facilitator was granted.
ScaleChanged == last'.op \in {"uc.change_scale", "ws.change_scale"} /\ last'.result = "ok"

\* C37: the current scale values are the custom values when some are set, else the
\* values of the predefined scale of the stored name, else those of
\* modified_fibonacci; a successful Change Scale stores the name and clears the
\* custom values, and a vote is accepted exactly when its token is among the values
\* so determined, those of the predefined scale after such a change.
C37_CurrentScaleValues ==
    /\ [](\A r \in DOMAIN heap : get_current_scale(heap[r]) = ScaleValues(heap[r]))
    /\ [][ /\ ScaleChanged =>
                 /\ RoomAfter.custom_scale = <<>>
                 /\ RoomAfter.voting_scale \in DOMAIN PREDEFINED_SCALES =>
                       get_current_scale(RoomAfter) = PREDEFINED_SCALES[RoomAfter.voting_scale]
                 /\ RoomAfter.voting_scale \notin DOMAIN PREDEFINED_SCALES =>
                       get_current_scale(RoomAfter) = PREDEFINED_SCALES.modified_fibonacci
           /\ (VoteStep /\ last'.vote # None) =>
                 (last'.result = "ok" <=> last'.vote \in Range(ScaleValues(RoomBefore)))
           /\ (last'.broadcast /\ last'.room \in repo') =>
                 last'.message.data.current_scale = ScaleValues(RoomAfter) ]_vars

\* The facilitator changed to t_shirt and a vote XL was accepted, while a participant
\* still holds the vote 1 of the scale before.
C37_Witness ==
    /\ last.op \in {"uc.vote", "ws.vote"} /\ last.result = "ok" /\ last.vote = "XL"
    /\ heap[last.room].voting_scale = "t_shirt"
    /\ heap[last.room].custom_scale = <<>>
    /\ \E i \in 1..Len(heap[last.room].players) : heap[last.room].players[i].vote = "1"


(***************************************************************************)
(* The tokens of a scale                                                   *)
(***************************************************************************)
TokensInputs ==
    [ room_names |-> {<<"S">>},
      player_names |-> <<Al, Bo>>,
      other_names |-> {},
      observers |-> {FALSE},
      votes |-> {"1", "3"},
      stories |-> {},
      scale_names |-> {"linear"},
      ws_scale_names |-> {},
      custom_scales |-> {<<"1", "3">>, <<"1", " 1 ">>},
      strangers |-> FALSE,
      fill |-> FALSE,
      max_history |-> MaxArchive,
      send_failures |-> FALSE ]

NextTokens ==
    \/ CreateRoom(TokensInputs)
    \/ JoinRoom(TokensInputs)
    \/ Vote(TokensInputs)
    \/ ChangeScale(TokensInputs)
    \/ SetCustomScale(TokensInputs)
    \/ WsConnect(TokensInputs)
    \/ WsSetCustomScale(TokensInputs)

SpecTokens == Init /\ [][NextTokens]_vars

\* C38: the tokens of a room's current scale are pairwise distinct in every state,
\* those after Set Custom Scale included.
C38_ScaleTokensAreDistinct ==
    \A r \in DOMAIN heap :
        LET scale == get_current_scale(heap[r]) IN
        \A i, j \in 1..Len(scale) : i # j => scale[i] # scale[j]

\* The same for the rooms on a predefined scale.
PredefinedTokensAreDistinct ==
    \A r \in DOMAIN heap :
        heap[r].custom_scale = <<>> =>
            LET scale == get_current_scale(heap[r]) IN
            \A i, j \in 1..Len(scale) : i # j => scale[i] # scale[j]


(***************************************************************************)
(* A deleted room whose channels stay open                                 *)
(***************************************************************************)
DeletedInputs ==
    [ room_names |-> {<<"S">>},
      player_names |-> <<Al>>,
      other_names |-> {},
      observers |-> {FALSE},
      votes |-> {"1"},
      stories |-> {<<"A">>},
      scale_names |-> {"linear"},
      ws_scale_names |-> {},
      custom_scales |-> {},
      strangers |-> FALSE,
      fill |-> FALSE,
      max_history |-> MaxArchive,
      send_failures |-> FALSE ]

NextDeleted ==
    \/ CreateRoom(DeletedInputs)
    \/ JoinRoom(DeletedInputs)
    \/ HttpJoinRoom(DeletedInputs)
    \/ DeleteRoom(DeletedInputs)
    \/ HttpDeleteRoom(DeletedInputs)
    \/ Vote(DeletedInputs)
    \/ Reveal(DeletedInputs)
    \/ Reset(DeletedInputs)
    \/ SetStory(DeletedInputs)
    \/ ToggleMode(DeletedInputs)
    \/ ChangeScale(DeletedInputs)
    \/ WsConnect(DeletedInputs)
    \/ WsDisconnect(DeletedInputs)
    \/ WsVote(DeletedInputs)
    \/ WsReveal(DeletedInputs)
    \/ WsSetStory(DeletedInputs)

SpecDeleted == Init /\ [][NextDeleted]_vars

\* The step is an operation on a room that had been deleted before.
OnDeletedRoom == last'.room \in DOMAIN heap /\ last'.room \notin repo

NextDeletedAsync ==
    \/ NextAsync
    \/ DeleteRoom(AsyncInputs)

SpecDeletedAsync == Init /\ [][NextDeletedAsync]_vars

\* No broadcast begins for a room that is not in the directory.
NoBroadcastBeginsAfterDeletion ==
    [][BroadcastStarts => last'.room \in repo]_vars

\* A broadcast that was suspended when the room was deleted writes nothing more.
\* (This one does not hold: the loop of ConnectionManager.broadcast goes on.)
NoDeliveryAfterDeletion ==
    [][inbox' # inbox => \A seq \in DOMAIN tasks : tasks[seq].room \in repo]_vars

=============================================================================
